---------------------------- MODULE Spec2Model ----------------------------
(***************************************************************************)
(* srn: batch renaming of files from the answer of a remote analysis       *)
(* service.  The model covers src/src/srn/core.py (format_new_name,        *)
(* get_unique_path, process_and_rename_file), the response parser of       *)
(* src/src/srn/analyzers.py and the batch orchestrator of                  *)
(* src/src/srn/cli.py (main) running on a ThreadPoolExecutor.              *)
(*                                                                         *)
(* Strings are sequences of one-character strings.  Python values are      *)
(* tagged records [t, v].  A path is a record [stem, suffix] inside the    *)
(* one directory the batch works in (Path.with_name keeps the parent).     *)
(***************************************************************************)
EXTENDS Integers, Sequences, FiniteSets, TLC

(***************************************************************************)
(* Bounds of the model.                                                    *)
(***************************************************************************)
MaxTokens == 1       \* largest token count one analysis call returns
MaxCpu == 2          \* largest os.cpu_count() / --jobs value drawn
MaxFiles == 5        \* largest number of discovered files in a pool-size call
\* the longest string sanitized on its own
MaxLen == 5
\* the longest response text (in tokens) parsed on its own
MaxParts == 3
\* the longest list of roots given to discover_files
MaxRoots == 2
\* the longest API key saved
MaxKeyLen == 2

(***************************************************************************)
(* Python values.                                                          *)
(***************************************************************************)
PyNone == [t |-> "None"]
PyStr(s) == [t |-> "str", v |-> s]
PyInt(n) == [t |-> "int", v |-> n]
PyList(xs) == [t |-> "list", v |-> xs]
PyDict(d) == [t |-> "dict", v |-> d]

\* Python truthiness (the "if p", "not info", "not raw_response" tests).
Truthy(x) ==
    CASE x.t = "None" -> FALSE
      [] x.t = "str"  -> Len(x.v) > 0
      [] x.t = "text" -> Len(x.v) > 0
      [] x.t = "int"  -> x.v # 0
      [] x.t = "list" -> Len(x.v) > 0
      [] x.t = "dict" -> DOMAIN x.v # {}
      [] OTHER -> TRUE

\* dict.get(key): the value, or None when the key is missing.
DictGet(d, key) == IF key \in DOMAIN d THEN d[key] ELSE PyNone

\* What a Python call did: it returned a value or it raised.
Return(x) == [tag |-> "return", value |-> x]
Raise(e) == [tag |-> "raise", exc |-> e]

(***************************************************************************)
(* Characters.                                                             *)
(***************************************************************************)
Digits == <<"0", "1", "2", "3", "4", "5", "6", "7", "8", "9">>
DigitSet == {Digits[i] : i \in 1..10}
Letters ==
    {"a", "b", "c", "d", "e", "f", "g", "h", "i", "j", "k", "l", "m", "n", "o",
     "p", "q", "r", "s", "t", "u", "v", "w", "x", "y", "z", "A", "T"}
\* \w of Python's re: letters, digits and the underscore
IsWordChar(c) == c \in Letters \cup DigitSet \cup {"_"}

\* str(n) for n >= 0
RECURSIVE IntToStr(_)
IntToStr(n) ==
    IF n < 10 THEN <<Digits[n + 1]>>
    ELSE IntToStr(n \div 10) \o <<Digits[(n % 10) + 1]>>

(***************************************************************************)
(* format_new_name: the post-join sanitization, core.py lines 42-45.       *)
(***************************************************************************)
\* safe_name = final_name.replace(" ", "_")
ReplaceSpaces(s) == [i \in 1..Len(s) |-> IF s[i] = " " THEN "_" ELSE s[i]]

\* safe_name = re.sub(r'[^\w\-_.]', '', safe_name)
KeepAllowed(s) == SelectSeq(s, LAMBDA c : IsWordChar(c) \/ c \in {"-", "_", "."})

\* safe_name = re.sub(r'[_.-]+', '_', safe_name)
IsSeparator(c) == c \in {"_", ".", "-"}
RECURSIVE CollapseRuns(_)
CollapseRuns(s) ==
    IF s = << >> THEN << >>
    ELSE IF IsSeparator(Head(s))
         THEN IF Len(s) > 1 /\ IsSeparator(s[2])
              THEN CollapseRuns(Tail(s))
              ELSE <<"_">> \o CollapseRuns(Tail(s))
         ELSE <<Head(s)>> \o CollapseRuns(Tail(s))

\* safe_name = safe_name.strip('_')
RECURSIVE LStrip(_, _)
LStrip(s, c) == IF s # << >> /\ Head(s) = c THEN LStrip(Tail(s), c) ELSE s
RECURSIVE RStrip(_, _)
RStrip(s, c) ==
    IF s # << >> /\ s[Len(s)] = c THEN RStrip(SubSeq(s, 1, Len(s) - 1), c) ELSE s
\* (Strip_LeftOnly: lstrip in the place of strip.)
Strip_LeftOnly(s, c) == LStrip(s, c)
Strip(s, c) == RStrip(LStrip(s, c), c)

sanitize(final_name) ==
    Strip(CollapseRuns(KeepAllowed(ReplaceSpaces(final_name))), "_")

(***************************************************************************)
(* format_new_name: the template path, core.py lines 15-19.  A template is *)
(* None (no --template) or a string, a sequence of symbols: "{", "}", and  *)
(* words (a field name or a literal).  A key is the sequence of symbols    *)
(* between the braces.                                                     *)
(***************************************************************************)
NoTemplate == PyNone

\* index of the first "}" of s at or after position i, 0 when there is none
RECURSIVE FindClose(_, _)
FindClose(s, i) ==
    IF i > Len(s) THEN 0
    ELSE IF s[i] = "}" THEN i ELSE FindClose(s, i + 1)

\* re.findall(r'{([^}]+)}', template), scanning from position i
RECURSIVE FindKeysFrom(_, _)
FindKeysFrom(s, i) ==
    IF i > Len(s) THEN << >>
    ELSE IF s[i] = "{" /\ FindClose(s, i + 1) > i + 1
         THEN <<SubSeq(s, i + 1, FindClose(s, i + 1) - 1)>>
                  \o FindKeysFrom(s, FindClose(s, i + 1) + 1)
         ELSE FindKeysFrom(s, i + 1)
FindKeys(template) == FindKeysFrom(template, 1)

\* info.get(key) for a key made of template symbols
InfoGet(info, key) ==
    IF Len(key) = 1 THEN DictGet(info, key[1]) ELSE PyNone

(***************************************************************************)
(* "_".join(p for p in parts if p): TypeError on a truthy part that is no  *)
(* string.                                                                 *)
(***************************************************************************)
TruthyParts(parts) == SelectSeq(parts, Truthy)

RECURSIVE JoinStrs(_)
JoinStrs(ps) ==
    IF ps = << >> THEN << >>
    ELSE IF Len(ps) = 1 THEN ps[1].v
    ELSE ps[1].v \o <<"_">> \o JoinStrs(Tail(ps))

JoinParts(parts) ==
    IF \E i \in 1..Len(TruthyParts(parts)) : TruthyParts(parts)[i].t # "str"
    THEN Raise("TypeError")
    ELSE Return(JoinStrs(TruthyParts(parts)))

\* The values of info["type"] the rule table of core.py lines 24-35 names.
NOTES == <<"n", "o", "t", "e", "s">>
EXAM == <<"e", "x", "a", "m">>
BOOK == <<"b", "o", "o", "k">>
PAPER == <<"p", "a", "p", "e", "r">>
OTHER_TYPE == <<"o", "t", "h", "e", "r">>

\* tipo == "notes" and the like: a string compares equal only to a string
IsStr(x, s) == x.t = "str" /\ x.v = s

\* (RuleFields_Untyped: a rule table that does not look at the type.)
RuleFields_Untyped(tipo) == <<"title", "subject">>
RuleFields(tipo) ==
    CASE IsStr(tipo, NOTES) -> <<"subject", "year", "author">>
      [] IsStr(tipo, EXAM) -> <<"subject", "date">>
      [] IsStr(tipo, BOOK) -> <<"title", "author">>
      [] IsStr(tipo, PAPER) -> <<"title", "first_author", "year">>
      [] IsStr(tipo, OTHER_TYPE) -> <<"title", "subject">>
      [] OTHER -> <<"title", "subject">>

\* final_name of core.py lines 15-37, or the exception the lookups raise:
\* info.get on a value that is no dict is an AttributeError.
FinalName(info, template) ==
    IF Truthy(template)
    THEN IF FindKeys(template.v) # << >> /\ info.t # "dict"
         THEN Raise("AttributeError")
         ELSE JoinParts([i \in 1..Len(FindKeys(template.v)) |->
                            InfoGet(info.v, FindKeys(template.v)[i])])
    ELSE IF info.t # "dict"
         THEN Raise("AttributeError")
         ELSE JoinParts([i \in 1..Len(RuleFields(DictGet(info.v, "type"))) |->
                            DictGet(info.v, RuleFields(DictGet(info.v, "type"))[i])])

\* format_new_name(info, template): None, the sanitized name, or a raise.
format_new_name(info, template) ==
    IF FinalName(info, template).tag = "raise" THEN FinalName(info, template)
    ELSE IF FinalName(info, template).value = << >> THEN Return(PyNone)
    ELSE Return(PyStr(sanitize(FinalName(info, template).value)))

(***************************************************************************)
(* parse_gemini_response, analyzers.py lines 19-41 (the same code in both  *)
(* analyzers).  A response text is a sequence of tokens: a run of          *)
(* whitespace, a json code-fence marker, a bare code-fence marker, a run   *)
(* of text that is no JSON, or one complete JSON value.                    *)
(***************************************************************************)
WS == [k |-> "ws"]
FENCE_JSON == [k |-> "fence_json"]
FENCE == [k |-> "fence"]
JUNK == [k |-> "junk"]
Json(x) == [k |-> "json", v |-> x]
PyText(toks) == [t |-> "text", v |-> toks]

\* str.strip() on a token sequence
TextStrip(toks) == Strip(toks, WS)
\* the two .replace(fence, "") calls of line 29
DropFences(toks) == SelectSeq(toks, LAMBDA k : k # FENCE_JSON /\ k # FENCE)
CleanText(toks) == TextStrip(DropFences(TextStrip(toks)))

\* json.loads(clean_text): the value, or JSONDecodeError
JsonLoads(toks) ==
    IF Len(toks) = 1 /\ toks[1].k = "json" THEN Return(toks[1].v)
    ELSE Raise("JSONDecodeError")

parse_gemini_response(response_text) ==
    IF response_text.t = "None" \/ response_text.v = << >> THEN PyNone
    ELSE IF CleanText(response_text.v) = << >> THEN PyNone
    ELSE IF JsonLoads(CleanText(response_text.v)).tag = "raise" THEN PyNone
    ELSE JsonLoads(CleanText(response_text.v)).value

(***************************************************************************)
(* Paths and get_unique_path, core.py lines 49-64.                         *)
(***************************************************************************)
Path(stem, suffix) == [stem |-> stem, suffix |-> suffix]
NonePath == [stem |-> << >>, suffix |-> << >>]
PDF == <<".", "p", "d", "f">>

\* filepath.with_name(f"{new_base_name}{filepath.suffix}"), lines 104-106
WithName(filepath, new_base_name) == Path(new_base_name, filepath.suffix)

\* parent / f"{stem}_{counter}{suffix}", lines 60-61
Candidate(path, counter) ==
    Path(path.stem \o <<"_">> \o IntToStr(counter), path.suffix)

\* the while loop of lines 59-64 over one snapshot of the directory
RECURSIVE UniqueFrom(_, _, _)
UniqueFrom(existing, path, counter) ==
    IF Candidate(path, counter) \notin existing THEN Candidate(path, counter)
    ELSE UniqueFrom(existing, path, counter + 1)

\* get_unique_path(path) when the directory holds exactly `existing`
\* (get_unique_path_FirstSuffix: no loop over the counter.)
get_unique_path_FirstSuffix(existing, path) ==
    IF path \notin existing THEN path ELSE Candidate(path, 1)
get_unique_path(existing, path) ==
    IF path \notin existing THEN path ELSE UniqueFrom(existing, path, 1)

(***************************************************************************)
(* The inputs of a run.                                                    *)
(***************************************************************************)
\* The files discovery hands to the pool: a.pdf, b.pdf, ...
SourceStems == <<"a", "b">>
SourceTasks == 1..Len(SourceStems)
SourceFile(i) == Path(<<SourceStems[i]>>, PDF)

\* Files that may lie in the directory without being FileTasks.
Bystanders == {Path(<<"n">>, PDF), Path(<<"n", "_", "1">>, PDF)}

\* --template values: none, or "{title}_{author}" (tests/test_core.py)
Templates == {NoTemplate, PyStr(<<"{", "title", "}", "_", "{", "author", "}">>)}

\* Response texts the remote capability may return.
BookInfo(title) == PyDict([type |-> PyStr(BOOK), title |-> PyStr(title)])
ResponseTexts ==
    { << >>,                                            \* ""
      <<JUNK>>,                                         \* prose, no JSON
      <<WS, FENCE_JSON, WS, FENCE, WS>>,                \* an empty code fence
      <<Json(PyList(<<PyInt(1)>>))>>,                   \* [1]
      <<FENCE_JSON, WS, Json(BookInfo(<<"n">>)), WS, FENCE>>,
      <<Json(BookInfo(<<"b">>))>>,
      <<Json(PyDict([title |-> PyInt(5)]))>>,           \* {"title": 5}
      <<Json(PyDict([type |-> PyStr(BOOK)]))>>,         \* no usable field
      <<Json(BookInfo(<<"!">>))>> }                     \* a title of symbols

\* What analyze() returns: (None, 0) on any failure (analyzers.py lines
\* 96-98, 108-110, 132-134, 223-225), else (response.text, total tokens).
AnalysisResults ==
    {<<PyNone, 0>>}
        \cup {<<PyText(x), n>> : x \in ResponseTexts, n \in 0..MaxTokens}

(***************************************************************************)
(* The status strings of process_and_rename_file, core.py lines 91-127.    *)
(***************************************************************************)
API_FAILED == "Gemini API call failed"
\* (PARSE_FAILED_AsSkipped: a parse failure reported in the skipped category.)
PARSE_FAILED_AsSkipped == "skipped"
PARSE_FAILED == "Failed to parse Gemini JSON response"
NAME_FAILED == "Could not generate a valid name from info"
OS_ERROR == "OS error renaming"
OutcomeRecord(original, new, status) ==
    [original_path |-> original, new_path |-> new, status |-> status]

(***************************************************************************)
(* State.                                                                  *)
(***************************************************************************)
VARIABLES
    args,              \* the parsed command line: on_conflict, dry_run, quiet, template
    files_to_process,  \* cli.py line 213/218: the FileTasks, in pool order
    num_workers,       \* cli.py line 214/233
    fs,                \* the directory: existing path -> content
    mpc,               \* where main() is
    work_queue,        \* the executor's queue: tasks no worker took yet
    futures,           \* futures[i]: state and outcome of task i
    th,                \* th[w]: position and locals of worker thread w; its
                       \* fields seen (the paths get_unique_path found in
                       \* use) and snap (the directory at line 111) are history
    token_counter,     \* the value of the shared ThreadSafeCounter
    results,           \* cli.py line 264, as far as main collected it
    summary,           \* what the summary of lines 289-301 printed
    exit_code,         \* the process exit code, NoExit while it runs
    taken,             \* history: taken[i] = how often a worker dequeued task i
    rename_calls,      \* history: rename_calls[i] = filepath.rename calls of task i
    tokens_returned,   \* history: sum of the token counts analyze() returned
    found_existing,    \* history: found_existing[i], what new_filepath.exists()
                       \* answered for task i at line 111
    credentials,       \* the GEMINI_API_KEY of os.environ and of ~/.srn/.env
    call,              \* a function called on its own, as the unit tests do:
                       \* its name and arguments (NoCall during a run of main)
    ret                \* what that call returned (NoReturn before it returns)

vars == <<args, files_to_process, num_workers, fs, mpc, work_queue, futures, th,
          token_counter, results, summary, exit_code, taken, rename_calls,
          tokens_returned, found_existing, credentials, call, ret>>

\* The tasks of the run: the indices of files_to_process.
Tasks == DOMAIN files_to_process

(***************************************************************************)
(* credentials.py lines 23-46.  The credentials are the value of           *)
(* GEMINI_API_KEY in os.environ and in the file ~/.srn/.env, each a string *)
(* or None (not set / no file).                                            *)
(***************************************************************************)
Credentials(environ, env_file) == [environ |-> environ, env_file |-> env_file]
NoCredentials == Credentials(PyNone, PyNone)
KeyInEnviron == Credentials(PyStr(<<"k">>), PyNone)

\* lines 29-33: set_key writes the line GEMINI_API_KEY='<key>' to the file;
\* the file is modelled by what follows the "=".
SetKeyValue(api_key) == <<"'">> \o api_key \o <<"'">>
save_api_key(c, api_key) == Credentials(c.environ, PyStr(SetKeyValue(api_key)))

\* load_dotenv reads the value back: the text between the quotes.
DotenvValue(text) ==
    IF Len(text) >= 2 /\ Head(text) = "'" /\ text[Len(text)] = "'"
    THEN SubSeq(text, 2, Len(text) - 1)
    ELSE text
\* lines 40-46: load_dotenv copies the key of the file into os.environ
\* unless os.environ has the variable already (override is False by
\* default); os.getenv returns what os.environ holds then.
load_dotenv(c) ==
    IF c.env_file # PyNone /\ c.environ = PyNone
    THEN Credentials(PyStr(DotenvValue(c.env_file.v)), c.env_file)
    ELSE c
load_api_key(c) == [value |-> load_dotenv(c).environ, credentials |-> load_dotenv(c)]

NoExit == -1
NoTask == 0
NoSummary == [printed |-> FALSE]
NoOutcome == [tag |-> "none"]
NoCall == [fn |-> "none"]
NoReturn == [tag |-> "none"]
Future(state, outcome) == [state |-> state, outcome |-> outcome]

IdleThread ==
    [pc |-> "idle", task |-> NoTask, new_filepath |-> NonePath, path |-> NonePath, counter |-> 0,
     seen |-> {}, snap |-> {}]

Min(a, b) == IF a < b THEN a ELSE b

\* cli.py lines 223-233: jobs is --jobs (NoJobs when absent), cpu is
\* os.cpu_count() (0 stands for None).
NoJobs == -100
\* (PoolSize_Unclamped: the desired workers without the min of line 233.)
PoolSize_Unclamped(jobs, cpu, nfiles) ==
    IF jobs # NoJobs /\ jobs > 0 THEN jobs
    ELSE IF cpu = 0 THEN 4 ELSE cpu
PoolSize(jobs, cpu, nfiles) ==
    Min(IF jobs # NoJobs /\ jobs > 0 THEN jobs
        ELSE IF cpu = 0 THEN 4 ELSE cpu,
        nfiles)

Init ==
    /\ \E oc \in {"skip", "overwrite", "rename"}, dr \in BOOLEAN, q \in BOOLEAN,
          tp \in Templates :
          args = [on_conflict |-> oc, dry_run |-> dr, quiet |-> q, template |-> tp]
    /\ files_to_process = [i \in SourceTasks |-> SourceFile(i)]
    /\ \E jobs \in {NoJobs, -1, 0} \cup 1..MaxCpu, cpu \in 0..MaxCpu :
          num_workers = PoolSize(jobs, cpu, Len(files_to_process))
    /\ \E extra \in SUBSET Bystanders :
          fs = [p \in {SourceFile(i) : i \in SourceTasks} \cup extra |-> p.stem]
    /\ mpc = "setup"
    /\ work_queue = << >>
    /\ futures = [i \in Tasks |-> Future("NONE", NoOutcome)]
    /\ th = [w \in 1..num_workers |-> IdleThread]
    /\ token_counter = 0
    /\ results = << >>
    /\ summary = NoSummary
    /\ exit_code = NoExit
    /\ taken = [i \in Tasks |-> 0]
    /\ rename_calls = [i \in Tasks |-> 0]
    /\ tokens_returned = 0
    /\ found_existing = [i \in Tasks |-> FALSE]
    /\ credentials \in {NoCredentials, KeyInEnviron}
    /\ call = NoCall
    /\ ret = NoReturn

(***************************************************************************)
(* The worker threads of the ThreadPoolExecutor, each running              *)
(* process_and_rename_file (core.py lines 66-127) on the task it took.     *)
(***************************************************************************)
Workers == DOMAIN th
filepath(w) == files_to_process[th[w].task]

\* The worker function returned `record`: the future holds it, the thread
\* is free again.
ReturnRecord(w, record) ==
    /\ futures' = [futures EXCEPT ![th[w].task] = Future("FINISHED", Return(record))]
    /\ th' = [th EXCEPT ![w] = IdleThread]

\* The worker function raised: the future holds the exception.
RaiseInWorker(w, exc) ==
    /\ futures' = [futures EXCEPT ![th[w].task] = Future("FINISHED", Raise(exc))]
    /\ th' = [th EXCEPT ![w] = IdleThread]

\* An idle thread takes the next work item off the queue.  Idle threads
\* are interchangeable: the one with the lowest number takes it.
\* (Dequeue_Peek: a queue whose get() leaves the item in place.)
Dequeue_Peek(queue) == queue
Dequeue(queue) == Tail(queue)
Take(w) ==
    /\ th[w].pc = "idle"
    /\ \A v \in 1..(w - 1) : th[v].pc # "idle"
    /\ work_queue # << >>
    /\ work_queue' = Dequeue(work_queue)
    /\ futures' = [futures EXCEPT ![Head(work_queue)].state = "RUNNING"]
    /\ th' = [th EXCEPT ![w].pc = "analyze", ![w].task = Head(work_queue)]
    /\ taken' = [taken EXCEPT ![Head(work_queue)] = @ + 1]
    /\ UNCHANGED <<args, files_to_process, num_workers, fs, mpc, token_counter,
                   results, summary, exit_code, rename_calls, tokens_returned,
                   found_existing, call, ret, credentials>>

\* A counter update that drops a count of one.
ShouldIncrement_OffByOne(token_count) == token_count > 1

\* core.py line 87: "if token_counter and token_count > 0"
ShouldIncrement(token_count) == token_count > 0

\* ThreadSafeCounter.increment(n): a mutex-guarded addition.
increment(value, n) == value + n

\* core.py lines 90-116: what the lines decide from the response and the
\* directory: a record to return, an exception, or to go on.
Decide(what, record, exc, new_filepath, conflict) ==
    [what |-> what, record |-> record, exc |-> exc,
     new_filepath |-> new_filepath, conflict |-> conflict]
NoRecord == OutcomeRecord(NonePath, NonePath, "")

\* core.py lines 111-116: what the conflict policy does with the computed
\* destination, given what new_filepath.exists() answered.
\* (ConflictAction_SkipProceeds: a policy check without the skip branch.)
ConflictAction_SkipProceeds(on_conflict, exists) ==
    IF exists /\ on_conflict = "rename" THEN "get_unique_path" ELSE "proceed"
ConflictAction(on_conflict, exists) ==
    IF exists
    THEN IF on_conflict = "skip" THEN "conflict_skipped"
         ELSE IF on_conflict = "rename" THEN "get_unique_path"
         ELSE "proceed"
    ELSE "proceed"

\* (ResolveDecision_ExistsFirst: lines 108-109 moved below lines 111-116,
\* so that the policy sees the source as an existing destination.)
ResolveDecision_ExistsFirst(fp, raw_response, template, on_conflict, existing) ==
    LET info == parse_gemini_response(raw_response)
        name == format_new_name(info, template)
        new_filepath == WithName(fp, name.value.v)
        action == ConflictAction(on_conflict, new_filepath \in existing)
    IN  IF ~Truthy(raw_response)
        THEN Decide("return", OutcomeRecord(fp, NonePath, API_FAILED), "",
                    NonePath, FALSE)
        ELSE IF ~Truthy(info)
        THEN Decide("return", OutcomeRecord(fp, NonePath, PARSE_FAILED), "",
                    NonePath, FALSE)
        ELSE IF name.tag = "raise"
        THEN Decide("raise", NoRecord, name.exc, NonePath, FALSE)
        ELSE IF ~Truthy(name.value)
        THEN Decide("return", OutcomeRecord(fp, NonePath, NAME_FAILED), "",
                    NonePath, FALSE)
        ELSE IF action = "conflict_skipped"
        THEN Decide("return", OutcomeRecord(fp, new_filepath, "conflict_skipped"),
                    "", new_filepath, TRUE)
        ELSE IF fp = new_filepath
        THEN Decide("return", OutcomeRecord(fp, new_filepath, "skipped"), "",
                    new_filepath, FALSE)
        ELSE Decide(action, NoRecord, "", new_filepath, new_filepath \in existing)
ResolveDecision(fp, raw_response, template, on_conflict, existing) ==
    LET info == parse_gemini_response(raw_response)
        name == format_new_name(info, template)
        new_filepath == WithName(fp, name.value.v)
        action == ConflictAction(on_conflict, new_filepath \in existing)
    IN  IF ~Truthy(raw_response)
        THEN Decide("return", OutcomeRecord(fp, NonePath, API_FAILED), "",
                    NonePath, FALSE)
        ELSE IF ~Truthy(info)
        THEN Decide("return", OutcomeRecord(fp, NonePath, PARSE_FAILED), "",
                    NonePath, FALSE)
        ELSE IF name.tag = "raise"
        THEN Decide("raise", NoRecord, name.exc, NonePath, FALSE)
        ELSE IF ~Truthy(name.value)
        THEN Decide("return", OutcomeRecord(fp, NonePath, NAME_FAILED), "",
                    NonePath, FALSE)
        ELSE IF fp = new_filepath
        THEN Decide("return", OutcomeRecord(fp, new_filepath, "skipped"), "",
                    new_filepath, FALSE)
        ELSE IF action = "conflict_skipped"
        THEN Decide("return", OutcomeRecord(fp, new_filepath, "conflict_skipped"),
                    "", new_filepath, TRUE)
        ELSE Decide(action, NoRecord, "", new_filepath, new_filepath \in existing)

\* core.py lines 73-116: the analysis call returns (raw_response,
\* token_count), the thread adds the tokens to the shared counter, parses,
\* formats and looks at the directory (line 111).  All that lies between
\* the return of the remote call and line 111 touches only the thread's
\* locals and the counter, which nobody reads before the pool has drained,
\* so it is one step.
AnalyzeReturns(w, r) ==
    /\ token_counter' = IF ShouldIncrement(r[2])
                        THEN increment(token_counter, r[2])
                        ELSE token_counter
    /\ tokens_returned' = tokens_returned + r[2]
    /\ LET d == ResolveDecision(filepath(w), r[1], args.template,
                                args.on_conflict, DOMAIN fs)
       IN  /\ found_existing' = [found_existing EXCEPT ![th[w].task] = d.conflict]
           /\ CASE d.what = "return" -> ReturnRecord(w, d.record)
             [] d.what = "raise" -> RaiseInWorker(w, d.exc)
             [] OTHER ->
                  /\ th' = [th EXCEPT
                              ![w].new_filepath = d.new_filepath,
                              ![w].path = d.new_filepath,
                              ![w].snap = DOMAIN fs,
                              ![w].counter = 0,
                              ![w].pc = IF d.what = "get_unique_path"
                                        THEN "probe" ELSE "finish"]
                  /\ UNCHANGED futures
\* analyze() reads the file, then asks gemini.get_gemini_client() for the
\* client (analyzers.py lines 124-125, 219-220).  Without an API key,
\* gemini.py line 18 calls sys.exit(1): SystemExit is no Exception, so
\* neither line 20 of gemini.py nor line 132 of analyzers.py catches it and
\* the worker function raises it.  A file that cannot be read gives
\* (None, 0) before the client is asked for (lines 96-110).
Analyze(w) ==
    /\ th[w].pc = "analyze"
    /\ credentials' \in {credentials, load_api_key(credentials).credentials}
    /\ IF Truthy(load_api_key(credentials).value)
       THEN \E r \in AnalysisResults : AnalyzeReturns(w, r)
       ELSE \/ AnalyzeReturns(w, <<PyNone, 0>>)
            \/ /\ RaiseInWorker(w, "SystemExit")
               /\ UNCHANGED <<token_counter, tokens_returned, found_existing>>
    /\ UNCHANGED <<args, files_to_process, num_workers, fs, mpc, work_queue,
                   results, summary, exit_code, taken, rename_calls, call, ret>>

\* get_unique_path, core.py lines 49-64, one exists() call per step (other
\* threads may change the directory between two calls).  counter = 0 is the
\* check of line 51, counter >= 1 the loop of lines 59-64.
Probed(w) == IF th[w].counter = 0 THEN th[w].path
             ELSE Candidate(th[w].path, th[w].counter)
\* (Probe_FirstSuffix: a get_unique_path that takes <stem>_1<ext> without
\* looking whether it is in use.)
Probe_FirstSuffix(w) ==
    /\ th[w].pc = "probe"
    /\ IF Probed(w) \notin DOMAIN fs \/ th[w].counter >= 1
       THEN th' = [th EXCEPT ![w].new_filepath = Probed(w), ![w].pc = "finish"]
       ELSE th' = [th EXCEPT ![w].counter = @ + 1,
                             ![w].seen = @ \cup {Probed(w)}]
    /\ UNCHANGED <<args, files_to_process, num_workers, fs, mpc, work_queue,
                   futures, token_counter, results, summary, exit_code, taken,
                   rename_calls, tokens_returned, found_existing, call, ret, credentials>>
Probe(w) ==
    /\ th[w].pc = "probe"
    /\ IF Probed(w) \notin DOMAIN fs
       THEN th' = [th EXCEPT ![w].new_filepath = Probed(w), ![w].pc = "finish"]
       ELSE th' = [th EXCEPT ![w].counter = @ + 1,
                             ![w].seen = @ \cup {Probed(w)}]
    /\ UNCHANGED <<args, files_to_process, num_workers, fs, mpc, work_queue,
                   futures, token_counter, results, summary, exit_code, taken,
                   rename_calls, tokens_returned,
                   found_existing, call, ret, credentials>>

\* Path.rename on POSIX: the source's content is at the target afterwards,
\* a file that was at the target is replaced, the source path is gone.
\* (Renamed_KeepsTarget: a rename that does not replace an existing file.)
Renamed_KeepsTarget(dir, source, target) ==
    [p \in (DOMAIN dir \ {source}) \cup {target} |->
        IF p = target /\ target \notin DOMAIN dir THEN dir[source] ELSE dir[p]]
Renamed(dir, source, target) ==
    [p \in (DOMAIN dir \ {source}) \cup {target} |->
        IF p = target THEN dir[source] ELSE dir[p]]

\* core.py lines 118-119: a dry run returns before the rename.
FinishDryRun(w) ==
    /\ th[w].pc = "finish"
    /\ args.dry_run
    /\ ReturnRecord(w, OutcomeRecord(filepath(w), th[w].new_filepath,
                                     "dry_run_success"))
    /\ UNCHANGED <<args, files_to_process, num_workers, fs, mpc, work_queue,
                   token_counter, results, summary, exit_code, taken,
                   rename_calls, tokens_returned,
                   found_existing, call, ret, credentials>>

\* core.py lines 121-123: filepath.rename(new_filepath) succeeds.
\* (FinishRename_InDryRun: a rename that does not look at dry_run.)
FinishRename_InDryRun(w) ==
    /\ th[w].pc = "finish"
    /\ filepath(w) \in DOMAIN fs
    /\ fs' = Renamed(fs, filepath(w), th[w].new_filepath)
    /\ rename_calls' = [rename_calls EXCEPT ![th[w].task] = @ + 1]
    /\ ReturnRecord(w, OutcomeRecord(filepath(w), th[w].new_filepath, "success"))
    /\ UNCHANGED <<args, files_to_process, num_workers, mpc, work_queue,
                   token_counter, results, summary, exit_code, taken,
                   tokens_returned, found_existing, call, ret, credentials>>
FinishRename(w) ==
    /\ th[w].pc = "finish"
    /\ ~args.dry_run
    /\ filepath(w) \in DOMAIN fs
    /\ fs' = Renamed(fs, filepath(w), th[w].new_filepath)
    /\ rename_calls' = [rename_calls EXCEPT ![th[w].task] = @ + 1]
    /\ ReturnRecord(w, OutcomeRecord(filepath(w), th[w].new_filepath, "success"))
    /\ UNCHANGED <<args, files_to_process, num_workers, mpc, work_queue,
                   token_counter, results, summary, exit_code, taken,
                   tokens_returned,
                   found_existing, call, ret, credentials>>

\* core.py lines 124-125: filepath.rename(new_filepath) raises OSError (the
\* operating system refuses it); the directory is as it was.
FinishOSError(w) ==
    /\ th[w].pc = "finish"
    /\ ~args.dry_run
    /\ rename_calls' = [rename_calls EXCEPT ![th[w].task] = @ + 1]
    /\ ReturnRecord(w, OutcomeRecord(filepath(w), th[w].new_filepath, OS_ERROR))
    /\ UNCHANGED <<args, files_to_process, num_workers, fs, mpc, work_queue,
                   token_counter, results, summary, exit_code, taken,
                   tokens_returned,
                   found_existing, call, ret, credentials>>

(***************************************************************************)
(* main(), cli.py lines 235-304.                                           *)
(***************************************************************************)
\* line 264: executor.map submits every task, in order.
Submitted(files) == [i \in 1..Len(files) |-> i]
Submit ==
    /\ mpc = "setup"
    /\ work_queue' = Submitted(files_to_process)
    /\ futures' = [i \in Tasks |-> Future("PENDING", NoOutcome)]
    /\ mpc' = "collect"
    /\ UNCHANGED <<args, files_to_process, num_workers, fs, th, token_counter,
                   results, summary, exit_code, taken, rename_calls,
                   tokens_returned,
                   found_existing, call, ret, credentials>>

\* Future.cancel() on every future: one that no worker took is cancelled
\* and never runs.
CancelAll(fut) ==
    [i \in DOMAIN fut |->
        IF fut[i].state = "PENDING" THEN Future("CANCELLED", NoOutcome) ELSE fut[i]]

\* line 264: list() takes the next result, in task order.
CollectResult ==
    /\ mpc = "collect"
    /\ Len(results) < Len(files_to_process)
    /\ futures[Len(results) + 1].state = "FINISHED"
    /\ futures[Len(results) + 1].outcome.tag = "return"
    /\ results' = Append(results, futures[Len(results) + 1].outcome.value)
    /\ UNCHANGED <<args, files_to_process, num_workers, fs, mpc, work_queue,
                   futures, th, token_counter, summary, exit_code, taken,
                   rename_calls, tokens_returned,
                   found_existing, call, ret, credentials>>

\* line 264: the next future holds an exception; result() raises it in
\* main, the iterator of executor.map cancels the futures left, and the
\* exception (no KeyboardInterrupt) leaves the try statement.
CollectRaises ==
    /\ mpc = "collect"
    /\ Len(results) < Len(files_to_process)
    /\ futures[Len(results) + 1].state = "FINISHED"
    /\ futures[Len(results) + 1].outcome.tag = "raise"
    /\ futures' = CancelAll(futures)
    /\ work_queue' = << >>
    /\ mpc' = "unwind_exception"
    /\ UNCHANGED <<args, files_to_process, num_workers, fs, th, token_counter,
                   results, summary, exit_code, taken, rename_calls,
                   tokens_returned,
                   found_existing, call, ret, credentials>>

\* lines 265-268: KeyboardInterrupt while main waits for a result.
\* (Interrupt_LeavesQueue: an interrupt handler that cancels nothing.)
Interrupt_LeavesQueue ==
    /\ mpc = "collect"
    /\ mpc' = "unwind_interrupt"
    /\ UNCHANGED <<args, files_to_process, num_workers, fs, work_queue, futures,
                   th, token_counter, results, summary, exit_code, taken,
                   rename_calls, tokens_returned, found_existing, call, ret, credentials>>
Interrupt ==
    /\ mpc = "collect"
    /\ futures' = CancelAll(futures)
    /\ work_queue' = << >>
    /\ mpc' = "unwind_interrupt"
    /\ UNCHANGED <<args, files_to_process, num_workers, fs, th, token_counter,
                   results, summary, exit_code, taken, rename_calls,
                   tokens_returned,
                   found_existing, call, ret, credentials>>

\* Leaving the with block (line 262) joins the worker threads; then the
\* exception ends the process: SystemExit(1) of line 268, or the traceback
\* of an uncaught exception.
PoolDrained == \A w \in Workers : th[w].pc = "idle"
ExitAfterUnwind ==
    /\ mpc \in {"unwind_exception", "unwind_interrupt"}
    /\ PoolDrained
    /\ mpc' = IF mpc = "unwind_interrupt" THEN "cancelled" ELSE "crashed"
    /\ exit_code' = 1
    /\ UNCHANGED <<args, files_to_process, num_workers, fs, work_queue, futures,
                   th, token_counter, results, summary, taken,
                   rename_calls, tokens_returned,
                   found_existing, call, ret, credentials>>

\* lines 256-260 and the loop body of lines 272-287
ZeroCounts ==
    [success_count |-> 0, skipped_count |-> 0, error_count |-> 0,
     dry_run_count |-> 0, conflict_count |-> 0]
TallyOne(c, status) ==
    IF status = "success" THEN [c EXCEPT !.success_count = @ + 1]
    ELSE IF status = "dry_run_success" THEN [c EXCEPT !.dry_run_count = @ + 1]
    ELSE IF status = "skipped" THEN [c EXCEPT !.skipped_count = @ + 1]
    ELSE IF status = "conflict_skipped" THEN [c EXCEPT !.conflict_count = @ + 1]
    ELSE [c EXCEPT !.error_count = @ + 1]
RECURSIVE TallyFrom(_, _)
TallyFrom(c, rs) ==
    IF rs = << >> THEN c ELSE TallyFrom(TallyOne(c, Head(rs).status), Tail(rs))

\* lines 270-287: the loop runs only when --quiet is not given
Tally(rs, quiet) == IF ~quiet THEN TallyFrom(ZeroCounts, rs) ELSE ZeroCounts

\* lines 289-301: the summary that is printed
Summary(c, dry_run, tokens) ==
    [printed |-> TRUE,
     renamed |-> IF dry_run THEN c.dry_run_count ELSE c.success_count,
     skipped |-> c.skipped_count,
     conflicts |-> c.conflict_count,
     failed |-> c.error_count,
     tokens |-> tokens]

\* lines 303-304
ExitCode(c) == IF c.error_count > 0 THEN 1 ELSE 0

\* lines 270-304, once list() has every result and the pool is left.
Report ==
    /\ mpc = "collect"
    /\ Len(results) = Len(files_to_process)
    /\ summary' = Summary(Tally(results, args.quiet), args.dry_run,
                          token_counter)
    /\ exit_code' = ExitCode(Tally(results, args.quiet))
    /\ mpc' = "done"
    /\ UNCHANGED <<args, files_to_process, num_workers, fs, work_queue, futures,
                   th, token_counter, results, taken, rename_calls,
                   tokens_returned,
                   found_existing, call, ret, credentials>>

Next ==
    \/ Submit
    \/ CollectResult
    \/ CollectRaises
    \/ Interrupt
    \/ ExitAfterUnwind
    \/ Report
    \/ \E w \in Workers : Take(w)
    \/ \E w \in Workers : Analyze(w)
    \/ \E w \in Workers : Probe(w)
    \/ \E w \in Workers : FinishDryRun(w)
    \/ \E w \in Workers : FinishRename(w)
    \/ \E w \in Workers : FinishOSError(w)

Spec == Init /\ [][Next]_vars

(***************************************************************************)
(* Helpers of the properties.                                              *)
(***************************************************************************)
KnownStatuses == {"success", "dry_run_success", "skipped", "conflict_skipped"}
IsFailure(status) == status \notin KnownStatuses
CountOf(rs, statuses) ==
    Cardinality({i \in 1..Len(rs) : rs[i].status \in statuses})
Finished(i) == futures[i].state = "FINISHED"
Returned(i) == Finished(i) /\ futures[i].outcome.tag = "return"
RecordOf(i) == futures[i].outcome.value
\* main() ended without an interrupt: it printed the summary, or an
\* exception that is no KeyboardInterrupt ended it.
EndedUncancelled == mpc \in {"done", "crashed"}

(***************************************************************************)
(* C1.  Per-file failure isolation: whatever the remote capability         *)
(* returns and whatever the file system does, process_and_rename_file      *)
(* returns an OutcomeRecord for its file and never raises, and no per-file *)
(* error terminates the batch.                                             *)
(***************************************************************************)
C1_FailureIsolation ==
    /\ \A i \in Tasks : Finished(i) => futures[i].outcome.tag = "return"
    /\ mpc \notin {"unwind_exception", "crashed"}

\* A worker function raised and the exception ended main: no result list,
\* no summary.
C1_Witness ==
    /\ mpc = "crashed"
    /\ \E i \in Tasks : Finished(i) /\ futures[i].outcome.tag = "raise"
    /\ results = << >>
    /\ ~summary.printed

(***************************************************************************)
(* C2.  In every run that is not cancelled the result collection holds     *)
(* exactly one OutcomeRecord per FileTask, the i-th being that of the i-th *)
(* task.                                                                   *)
(***************************************************************************)
C2_OneRecordPerTask ==
    EndedUncancelled =>
        /\ Len(results) = Len(files_to_process)
        /\ \A i \in Tasks : results[i].original_path = files_to_process[i]

\* A run nobody cancelled ended with an empty result collection although a
\* task had returned its record.
C2_Witness ==
    /\ mpc = "crashed"
    /\ results = << >>
    /\ \E i \in Tasks : Returned(i)

(***************************************************************************)
(* C3.  With any number of workers and any interleaving, the rename is     *)
(* attempted at most once per FileTask and no FileTask is taken by two     *)
(* workers; a task that runs or has an outcome was taken exactly once, and *)
(* in a run that completes every task was.                                 *)
(***************************************************************************)
C3_ProcessedOnce ==
    \A i \in Tasks :
        /\ rename_calls[i] <= 1
        /\ taken[i] <= 1
        /\ Cardinality({w \in Workers : th[w].task = i}) <= 1
        /\ futures[i].state \in {"RUNNING", "FINISHED"} => taken[i] = 1
        /\ mpc = "done" => taken[i] = 1

\* Two workers were busy at once and both files were renamed.
C3_Witness ==
    /\ num_workers = 2
    /\ \A i \in Tasks : rename_calls[i] = 1 /\ taken[i] = 1
    /\ mpc = "done"

(***************************************************************************)
(* C4.  For a run that completes without cancellation, verbose or quiet,   *)
(* the exit code is 1 if and only if some OutcomeRecord is a failure, and  *)
(* 0 otherwise.                                                            *)
(***************************************************************************)
C4_ExitCode ==
    mpc = "done" =>
        exit_code = IF \E i \in 1..Len(results) : IsFailure(results[i].status)
                    THEN 1 ELSE 0

\* A quiet run completed with a failed record and exit code 0.
C4_Witness ==
    /\ mpc = "done"
    /\ args.quiet
    /\ \E i \in 1..Len(results) : IsFailure(results[i].status)
    /\ exit_code = 0

(***************************************************************************)
(* C5.  The summary of a completed run reports, for each category, the     *)
(* number of OutcomeRecords with that status, verbose or quiet, so the     *)
(* counts add up to the number of FileTasks.                               *)
(***************************************************************************)
C5_SummaryCounts ==
    mpc = "done" =>
        /\ summary.renamed = CountOf(results, {"success", "dry_run_success"})
        /\ summary.skipped = CountOf(results, {"skipped"})
        /\ summary.conflicts = CountOf(results, {"conflict_skipped"})
        /\ summary.failed = Len(results) - CountOf(results, KnownStatuses)
        /\ summary.renamed + summary.skipped + summary.conflicts + summary.failed
               = Len(files_to_process)

\* A quiet run renamed both files and its summary says 0 renamed.
C5_Witness ==
    /\ mpc = "done"
    /\ args.quiet
    /\ CountOf(results, {"success"}) = Len(files_to_process)
    /\ summary.renamed = 0

(***************************************************************************)
(* C6.  The counter starts at 0, every increment adds exactly the token    *)
(* count the analysis returned, and the total the summary reports after    *)
(* the pool has drained is the sum of the token counts of all analyses.    *)
(***************************************************************************)
C6_TokenTotal ==
    /\ mpc = "setup" => token_counter = 0
    /\ token_counter = tokens_returned
    /\ mpc = "done" => summary.tokens = tokens_returned

\* Two workers, both analyses returned tokens, and the summary shows them.
C6_Witness ==
    /\ mpc = "done"
    /\ num_workers = 2
    /\ summary.tokens = Len(files_to_process) * MaxTokens

(***************************************************************************)
(* The destination process_and_rename_file computes from a response        *)
(* (lines 94-106), for the properties about the conflict policy.           *)
(***************************************************************************)
Destination(fp, raw_response) ==
    LET info == parse_gemini_response(raw_response)
        name == format_new_name(info, args.template)
    IN  IF /\ Truthy(raw_response)
           /\ Truthy(info)
           /\ name.tag = "return"
           /\ Truthy(name.value)
        THEN WithName(fp, name.value.v)
        ELSE NonePath
\* The case of C7, C8 and C10: the computed destination exists and is not
\* the source.
Conflicting(fp, new_filepath) ==
    /\ new_filepath # NonePath
    /\ new_filepath # fp
    /\ new_filepath \in DOMAIN fs
DecisionNow(fp, raw_response) ==
    ResolveDecision(fp, raw_response, args.template, args.on_conflict, DOMAIN fs)
\* Thread w runs lines 73-116 for task i in this step.
Decides(w, i) ==
    th[w].pc = "analyze" /\ th[w].task = i /\ th'[w].pc # "analyze"
\* Task i gets its outcome in this step.
Returns(i) == ~Finished(i) /\ Finished(i)' /\ futures'[i].outcome.tag = "return"
\* Thread w ends its task in this step, coming from the rename of line 122.
EndsRename(w) ==
    /\ th[w].pc = "finish"
    /\ ~args.dry_run
    /\ \E i \in Tasks : th[w].task = i /\ Returns(i)
\* No file but `changed` differs between the directory before and after.
OthersUntouched(changed) ==
    \A p \in (DOMAIN fs \cup DOMAIN fs') \ changed :
        p \in DOMAIN fs /\ p \in DOMAIN fs' /\ fs'[p] = fs[p]

(***************************************************************************)
(* C7.  When the computed destination exists, differs from the source and  *)
(* the policy is skip, the task returns conflict_skipped with that         *)
(* destination and changes nothing: after the step the source and the      *)
(* destination are both there with the content they had, and the task      *)
(* never called rename.                                                    *)
(***************************************************************************)
C7_SkipDecision ==
    \A w \in Workers, i \in Tasks, x \in ResponseTexts :
        (/\ Decides(w, i)
         /\ args.on_conflict = "skip") =>
            LET fp == files_to_process[i]
                dest == Destination(fp, PyText(x))
                d == DecisionNow(fp, PyText(x))
            IN  Conflicting(fp, dest) =>
                    /\ d.what = "return"
                    /\ d.record = OutcomeRecord(fp, dest, "conflict_skipped")
C7_SkipStep ==
    \A i \in Tasks :
        (Returns(i) /\ futures'[i].outcome.value.status = "conflict_skipped") =>
            /\ args.on_conflict = "skip"
            /\ fs' = fs
            /\ files_to_process[i] \in DOMAIN fs'
            /\ futures'[i].outcome.value.new_path \in DOMAIN fs'
            /\ futures'[i].outcome.value.new_path # files_to_process[i]
            /\ rename_calls'[i] = 0
C7_ConflictSkip == [][C7_SkipDecision /\ C7_SkipStep]_vars

\* A task ended conflict_skipped and both files are in the directory.
C7_Witness ==
    \E i \in Tasks :
        /\ Returned(i)
        /\ RecordOf(i).status = "conflict_skipped"
        /\ RecordOf(i).new_path \in DOMAIN fs
        /\ files_to_process[i] \in DOMAIN fs

(***************************************************************************)
(* C8.  When the computed destination exists, differs from the source, the *)
(* policy is rename and the run is no dry run, the task goes through       *)
(* get_unique_path and, when the rename call succeeds, ends with success:  *)
(* the source's content is at <stem>_k<ext>, k >= 1 the first k the task   *)
(* found unused (the first unused k of the directory when the directory    *)
(* did not change since the task looked up its destination), the source    *)
(* path is gone, and every other file, the destination that was there      *)
(* included, is unchanged.  A rename call that raises leaves everything as *)
(* it was and gives a failed record.                                       *)
(***************************************************************************)
C8_RenameDecision ==
    \A w \in Workers, i \in Tasks, x \in ResponseTexts :
        (/\ Decides(w, i)
         /\ args.on_conflict = "rename") =>
            LET fp == files_to_process[i]
                dest == Destination(fp, PyText(x))
                d == DecisionNow(fp, PyText(x))
            IN  Conflicting(fp, dest) =>
                    /\ d.what = "get_unique_path"
                    /\ d.new_filepath = dest
C8_RenameStep ==
    \A w \in Workers :
        (/\ EndsRename(w)
         /\ args.on_conflict = "rename"
         /\ found_existing[th[w].task]
         /\ th[w].counter >= 1) =>
            LET rec == futures'[th[w].task].outcome.value
                src == filepath(w)
                dest == th[w].path
                k == th[w].counter
            IN  /\ rec.status \in {"success", OS_ERROR}
                /\ rec.original_path = src
                /\ rec.new_path = Candidate(dest, k)
                /\ dest \in th[w].seen
                /\ \A j \in 1..(k - 1) : Candidate(dest, j) \in th[w].seen
                /\ DOMAIN fs = th[w].snap =>
                      /\ dest \in DOMAIN fs
                      /\ \A j \in 1..(k - 1) : Candidate(dest, j) \in DOMAIN fs
                      /\ Candidate(dest, k) \notin DOMAIN fs
                /\ rec.status = OS_ERROR => fs' = fs
                /\ rec.status = "success" =>
                      /\ src \notin DOMAIN fs'
                      /\ fs'[rec.new_path] = fs[src]
                      /\ OthersUntouched({src, rec.new_path})
C8_ConflictRename == [][C8_RenameDecision /\ C8_RenameStep]_vars

\* A task that found n.pdf and n_1.pdf in use was renamed to n_2.pdf, and
\* n.pdf still holds its own content.
C8_Witness ==
    \E i \in Tasks :
        /\ args.on_conflict = "rename"
        /\ Returned(i)
        /\ RecordOf(i).status = "success"
        /\ RecordOf(i).new_path = Path(<<"n", "_", "2">>, PDF)
        /\ Path(<<"n", "_", "2">>, PDF) \in DOMAIN fs
        /\ fs[Path(<<"n", "_", "2">>, PDF)] = files_to_process[i].stem
        /\ files_to_process[i] \notin DOMAIN fs
        /\ Path(<<"n">>, PDF) \in DOMAIN fs
        /\ fs[Path(<<"n">>, PDF)] = <<"n">>

(***************************************************************************)
(* C9.  get_unique_path(p) on a directory: p itself when p does not exist; *)
(* otherwise <stem>_k<ext> with the smallest k >= 1 whose path does not    *)
(* exist.  The result never exists in the directory it was computed on,    *)
(* and the path a thread takes out of its exists() calls is that result    *)
(* whenever the directory is as it was when the thread started looking.    *)
(***************************************************************************)
C9_Paths == DOMAIN fs \cup Bystanders \cup {Candidate(p, 1) : p \in Bystanders}
C9_Contract(existing, p) ==
    LET r == get_unique_path(existing, p)
    IN  /\ r \notin existing
        /\ p \notin existing => r = p
        /\ p \in existing =>
              \E k \in 1..(Cardinality(existing) + 1) :
                  /\ r = Candidate(p, k)
                  /\ \A j \in 1..(k - 1) : Candidate(p, j) \in existing
C9_UniquePath ==
    /\ \A p \in C9_Paths : C9_Contract(DOMAIN fs, p)
    /\ \A w \in Workers :
          (/\ th[w].pc = "finish"
           /\ args.on_conflict = "rename"
           /\ found_existing[th[w].task]
           /\ DOMAIN fs = th[w].snap) =>
              th[w].new_filepath = get_unique_path(DOMAIN fs, th[w].path)

\* A thread has come out of get_unique_path with n_2.pdf: n.pdf and n_1.pdf
\* are in use.
C9_Witness ==
    \E w \in Workers :
        /\ th[w].pc = "finish"
        /\ args.on_conflict = "rename"
        /\ th[w].path = Path(<<"n">>, PDF)
        /\ {Path(<<"n">>, PDF), Path(<<"n", "_", "1">>, PDF)} \subseteq DOMAIN fs
        /\ th[w].new_filepath = Path(<<"n", "_", "2">>, PDF)
        /\ get_unique_path(DOMAIN fs, th[w].path) = Path(<<"n", "_", "2">>, PDF)

(***************************************************************************)
(* C10.  When the computed destination exists, differs from the source,    *)
(* the policy is overwrite and the run is no dry run, the task goes on to  *)
(* the rename with that destination and, when the rename call succeeds,    *)
(* ends with success: the destination holds the source's content, the      *)
(* source path is gone and no other file changed.  A rename call that      *)
(* raises leaves everything as it was and gives a failed record.           *)
(***************************************************************************)
C10_OverwriteDecision ==
    \A w \in Workers, i \in Tasks, x \in ResponseTexts :
        (/\ Decides(w, i)
         /\ args.on_conflict = "overwrite") =>
            LET fp == files_to_process[i]
                dest == Destination(fp, PyText(x))
                d == DecisionNow(fp, PyText(x))
            IN  Conflicting(fp, dest) =>
                    /\ d.what = "proceed"
                    /\ d.conflict
                    /\ d.new_filepath = dest
C10_OverwriteStep ==
    \A w \in Workers :
        (/\ EndsRename(w)
         /\ args.on_conflict = "overwrite"
         /\ found_existing[th[w].task]) =>
            LET rec == futures'[th[w].task].outcome.value
                src == filepath(w)
                dest == th[w].path
            IN  /\ rec.status \in {"success", OS_ERROR}
                /\ rec.original_path = src
                /\ rec.new_path = dest
                /\ dest # src
                /\ rec.status = OS_ERROR => fs' = fs
                /\ rec.status = "success" =>
                      /\ src \notin DOMAIN fs'
                      /\ fs'[dest] = fs[src]
                      /\ OthersUntouched({src, dest})
C10_ConflictOverwrite == [][C10_OverwriteDecision /\ C10_OverwriteStep]_vars

\* A task that found its destination n.pdf in use ended with success: n.pdf
\* holds the task's content and its source is gone.
C10_Witness ==
    \E i \in Tasks :
        /\ args.on_conflict = "overwrite"
        /\ found_existing[i]
        /\ Returned(i)
        /\ RecordOf(i).status = "success"
        /\ RecordOf(i).new_path = Path(<<"n">>, PDF)
        /\ fs[Path(<<"n">>, PDF)] = files_to_process[i].stem
        /\ files_to_process[i] \notin DOMAIN fs

(***************************************************************************)
(* C11.  When the formatted name plus the file's extension is the file's   *)
(* own path, the task returns skipped, under every conflict policy and in  *)
(* dry-run and real mode alike, although that path exists: the check of    *)
(* lines 108-109 comes before the destination-exists check.  The step      *)
(* changes no file and the task never calls rename.                        *)
(***************************************************************************)
C11_SkippedDecision ==
    \A w \in Workers, i \in Tasks, x \in ResponseTexts :
        Decides(w, i) =>
            LET fp == files_to_process[i]
                dest == Destination(fp, PyText(x))
                d == DecisionNow(fp, PyText(x))
            IN  dest = fp =>
                    /\ d.what = "return"
                    /\ d.record = OutcomeRecord(fp, fp, "skipped")
C11_SkippedStep ==
    \A i \in Tasks :
        (Returns(i) /\ futures'[i].outcome.value.status = "skipped") =>
            /\ futures'[i].outcome.value.original_path = files_to_process[i]
            /\ futures'[i].outcome.value.new_path = files_to_process[i]
            /\ fs' = fs
            /\ rename_calls'[i] = 0
C11_SkippedPrecedence == [][C11_SkippedDecision /\ C11_SkippedStep]_vars

\* Under policy skip and in real mode a task whose file is there under the
\* computed name ended skipped, not conflict_skipped.
C11_Witness ==
    \E i \in Tasks :
        /\ args.on_conflict = "skip"
        /\ ~args.dry_run
        /\ Returned(i)
        /\ RecordOf(i).status = "skipped"
        /\ RecordOf(i).new_path = files_to_process[i]
        /\ files_to_process[i] \in DOMAIN fs
        /\ rename_calls[i] = 0

(***************************************************************************)
(* C12.  In a dry run no step changes the directory and no rename is       *)
(* called, whatever the policy, the number of workers and the              *)
(* interleaving; a task whose response gives a destination other than its  *)
(* own path, and that policy skip does not stop on an existing             *)
(* destination, goes on to line 118 and its record is dry_run_success with *)
(* the path conflict resolution chose; no task ever reports success.       *)
(***************************************************************************)
C12_DryRunDecision ==
    \A w \in Workers, i \in Tasks, x \in ResponseTexts :
        (Decides(w, i) /\ args.dry_run) =>
            LET fp == files_to_process[i]
                dest == Destination(fp, PyText(x))
                d == DecisionNow(fp, PyText(x))
            IN  (/\ dest # NonePath
                 /\ dest # fp
                 /\ ~(dest \in DOMAIN fs /\ args.on_conflict = "skip")) =>
                    /\ d.what \in {"proceed", "get_unique_path"}
                    /\ d.new_filepath = dest
C12_DryRunStep ==
    args.dry_run =>
        /\ fs' = fs
        /\ rename_calls' = rename_calls
        /\ \A i \in Tasks : Returns(i) =>
              /\ futures'[i].outcome.value.status # "success"
              /\ \A w \in Workers :
                    (th[w].task = i /\ th[w].pc \in {"probe", "finish"}) =>
                        futures'[i].outcome.value =
                            OutcomeRecord(files_to_process[i], th[w].new_filepath,
                                          "dry_run_success")
C12_DryRun == [][C12_DryRunDecision /\ C12_DryRunStep]_vars

\* A dry run with two workers completed under policy overwrite: a task whose
\* destination n.pdf was in use reports dry_run_success, n.pdf holds what it
\* held and the source is where it was.
C12_Witness ==
    /\ mpc = "done"
    /\ args.dry_run
    /\ args.on_conflict = "overwrite"
    /\ num_workers = 2
    /\ \E i \in Tasks :
          /\ found_existing[i]
          /\ RecordOf(i).status = "dry_run_success"
          /\ RecordOf(i).new_path = Path(<<"n">>, PDF)
          /\ fs[Path(<<"n">>, PDF)] = <<"n">>
          /\ files_to_process[i] \in DOMAIN fs
          /\ fs[files_to_process[i]] = files_to_process[i].stem

(***************************************************************************)
(* C13.  When analyze() gives no response text or an empty one, or the     *)
(* text does not parse (nothing left once fences and whitespace are        *)
(* stripped, or what is left is not JSON), the task returns a record whose *)
(* status is a failure (none of success, dry_run_success, skipped,         *)
(* conflict_skipped) and whose new_path is absent; the step changes no     *)
(* file and the task never calls rename.                                   *)
(***************************************************************************)
\* The responses the claim is about.
C13_Unusable(raw_response) ==
    \/ raw_response.t = "None"
    \/ raw_response.v = << >>
    \/ CleanText(raw_response.v) = << >>
    \/ \E k \in 1..Len(CleanText(raw_response.v)) :
          CleanText(raw_response.v)[k].k # "json"
C13_FailedDecision ==
    \A w \in Workers, i \in Tasks, r \in AnalysisResults :
        (Decides(w, i) /\ C13_Unusable(r[1])) =>
            LET d == DecisionNow(files_to_process[i], r[1])
            IN  /\ d.what = "return"
                /\ d.record.original_path = files_to_process[i]
                /\ d.record.new_path = NonePath
                /\ IsFailure(d.record.status)
C13_FailedStep ==
    \A i \in Tasks :
        (Returns(i) /\ futures'[i].outcome.value.new_path = NonePath) =>
            /\ IsFailure(futures'[i].outcome.value.status)
            /\ fs' = fs
            /\ rename_calls'[i] = 0
C13_MalformedResponse == [][C13_FailedDecision /\ C13_FailedStep]_vars

\* One task failed on its response and left its file alone while the other
\* task of the batch was renamed.
C13_Witness ==
    \E i, j \in Tasks :
        /\ Returned(i)
        /\ RecordOf(i).status = PARSE_FAILED
        /\ RecordOf(i).new_path = NonePath
        /\ files_to_process[i] \in DOMAIN fs
        /\ fs[files_to_process[i]] = files_to_process[i].stem
        /\ rename_calls[i] = 0
        /\ Returned(j)
        /\ RecordOf(j).status = "success"

(***************************************************************************)
(* C14.  Once main has caught the interrupt, no task is taken any more: a  *)
(* task no worker had taken is cancelled, has no thread, gets no analysis  *)
(* call and no rename call.  Main leaves as soon as the threads that were  *)
(* running have returned, whatever was still queued, and the exit code of  *)
(* the run it ends is 1.                                                   *)
(***************************************************************************)
Interrupted == mpc \in {"unwind_interrupt", "cancelled"}
NotStarted(i) == taken[i] = 0
C14_State ==
    /\ Interrupted =>
          /\ work_queue = << >>
          /\ \A i \in Tasks : NotStarted(i) =>
                /\ futures[i].state = "CANCELLED"
                /\ \A w \in Workers : th[w].task # i
                /\ rename_calls[i] = 0
                /\ ~found_existing[i]
    /\ (mpc = "unwind_interrupt" /\ PoolDrained) => ENABLED ExitAfterUnwind
    /\ mpc = "cancelled" => exit_code = 1
C14_Step ==
    /\ C14_State
    /\ C14_State'
    /\ Interrupted =>
          /\ taken' = taken
          /\ \A i \in Tasks : NotStarted(i) => futures'[i] = futures[i]
          /\ \A w \in Workers : th[w].pc = "idle" => th'[w] = th[w]
FinishedWith(statuses) ==
    Cardinality({i \in Tasks : Returned(i) /\ RecordOf(i).status \in statuses})
C15_CancelledSummary ==
    mpc = "cancelled" =>
        /\ summary.printed
        /\ summary.tokens = token_counter
        /\ summary.renamed = FinishedWith({"success", "dry_run_success"})
        /\ summary.skipped = FinishedWith({"skipped"})
        /\ summary.conflicts = FinishedWith({"conflict_skipped"})
        /\ summary.failed =
              Cardinality({i \in Tasks : Returned(i) /\ IsFailure(RecordOf(i).status)})

\* An interrupted run has exited without a summary although a task had
\* finished and tokens had been counted.
C15_Witness ==
    /\ mpc = "cancelled"
    /\ exit_code = 1
    /\ ~summary.printed
    /\ token_counter > 0
    /\ \E i \in Tasks : Returned(i) /\ RecordOf(i).status = "success"

(***************************************************************************)
(* Functions called on their own.  The variables of main() stay at the     *)
(* values of a process in which no batch runs.                             *)
(***************************************************************************)
NoBatch ==
    /\ args = [on_conflict |-> "skip", dry_run |-> FALSE, quiet |-> FALSE,
               template |-> NoTemplate]
    /\ files_to_process = << >>
    /\ num_workers = 0
    /\ fs = << >>
    /\ mpc = "none"
    /\ work_queue = << >>
    /\ futures = << >>
    /\ th = << >>
    /\ token_counter = 0
    /\ results = << >>
    /\ summary = NoSummary
    /\ exit_code = NoExit
    /\ taken = << >>
    /\ rename_calls = << >>
    /\ tokens_returned = 0
    /\ found_existing = << >>
    /\ credentials = NoCredentials
mainVars ==
    <<args, files_to_process, num_workers, fs, mpc, work_queue, futures, th,
      token_counter, results, summary, exit_code, taken, rename_calls,
      tokens_returned, found_existing>>

(***************************************************************************)
(* The pool size, cli.py lines 195-233: num_workers as main computes it    *)
(* from -r, --jobs, os.cpu_count() and the number of files.                *)
(***************************************************************************)
\* lines 213-214 without -r, lines 223-233 with it
NumWorkers(recursive, jobs, cpu, nfiles) ==
    IF ~recursive THEN 1 ELSE PoolSize(jobs, cpu, nfiles)

\* Without -r there is the one file of line 213; with -r discovery found at
\* least one file (line 219 exits otherwise).
PoolCalls ==
    {c \in [fn : {"num_workers"}, recursive : BOOLEAN,
            jobs : {NoJobs} \cup (-1..MaxCpu), cpu : 0..MaxCpu,
            nfiles : 1..MaxFiles] :
        ~c.recursive => c.nfiles = 1}
PoolInit == NoBatch /\ call \in PoolCalls /\ ret = NoReturn
ComputeNumWorkers ==
    /\ call.fn = "num_workers"
    /\ ret = NoReturn
    /\ ret' = Return(NumWorkers(call.recursive, call.jobs, call.cpu, call.nfiles))
    /\ UNCHANGED <<mainVars, call, credentials>>
PoolNext == ComputeNumWorkers
PoolSpec == PoolInit /\ [][PoolNext]_vars

(***************************************************************************)
(* C16.  With -r and at least one file the pool size is min(d, number of   *)
(* files), d being --jobs when given and > 0, else os.cpu_count(), else 4; *)
(* so 1 <= pool size <= number of files, also for --jobs 0 and negative    *)
(* values.  Without -r the pool size is 1.                                 *)
(***************************************************************************)
C16_Desired(c) ==
    IF c.jobs # NoJobs /\ c.jobs >= 1 THEN c.jobs
    ELSE IF c.cpu >= 1 THEN c.cpu
    ELSE 4
C16_PoolSize ==
    ret # NoReturn =>
        /\ ret.tag = "return"
        /\ call.recursive =>
              /\ ret.value = Min(C16_Desired(call), call.nfiles)
              /\ ret.value >= 1
              /\ ret.value <= call.nfiles
        /\ ~call.recursive => ret.value = 1

\* No --jobs, os.cpu_count() unknown, 5 files: the fallback of 4 workers.
C16_Witness ==
    /\ ret # NoReturn
    /\ call.recursive
    /\ call.jobs = NoJobs
    /\ call.cpu = 0
    /\ call.nfiles = 5
    /\ ret.value = 4

(***************************************************************************)
(* format_new_name called on its own (core.py lines 10-47), as             *)
(* tests/test_core.py does, on ExtractedInfo: a dict whose values are      *)
(* strings or None.                                                        *)
(***************************************************************************)
InfoFields == {"subject", "year", "author", "date", "title", "first_author"}
\* the value a field has when it has one: the field's first letter
FieldValue(f) ==
    CASE f = "subject" -> <<"s">>
      [] f = "year" -> <<"y">>
      [] f = "author" -> <<"a">>
      [] f = "date" -> <<"d">>
      [] f = "title" -> <<"t">>
      [] f = "first_author" -> <<"f">>
\* A field is missing, null, the empty string, its value, or (the title) a
\* string that sanitization empties.
FieldChoices(f) ==
    IF f = "title" THEN {"absent", "null", "empty", "value", "symbols"}
    ELSE {"absent", "null", "empty", "value"}
ChoiceValue(f, choice) ==
    CASE choice = "null" -> PyNone
      [] choice = "empty" -> PyStr(<< >>)
      [] choice = "symbols" -> PyStr(<<"!", " ", ".">>)
      [] OTHER -> PyStr(FieldValue(f))
Absent == [t |-> "absent"]
TypeChoices ==
    {Absent, PyNone, PyStr(NOTES), PyStr(EXAM), PyStr(BOOK), PyStr(PAPER),
     PyStr(OTHER_TYPE), PyStr(<<"z", "i", "n", "e">>)}
MakeInfo(ty, ch) ==
    PyDict([k \in (IF ty = Absent THEN {} ELSE {"type"})
                    \cup {f \in DOMAIN ch : ch[f] # "absent"} |->
               IF k = "type" THEN ty ELSE ChoiceValue(k, ch[k])])
FieldChoiceMaps(fields) ==
    {ch \in [fields -> {"absent", "null", "empty", "value", "symbols"}] :
        \A f \in fields : ch[f] \in FieldChoices(f)}
Infos == {MakeInfo(ty, ch) : ty \in TypeChoices, ch \in FieldChoiceMaps(InfoFields)}
TemplateInfos ==
    {MakeInfo(ty, ch) : ty \in {Absent, PyStr(BOOK), PyStr(NOTES)},
                        ch \in FieldChoiceMaps({"title", "author", "year", "subject"})}

\* --template values: placeholders in an order that is not the rule
\* table's, a missing key and literal text, no placeholder, broken braces,
\* the empty string.
T_TitleAuthor == PyStr(<<"{", "title", "}", "_", "{", "author", "}">>)
T_AuthorTitle == PyStr(<<"{", "author", "}", "{", "title", "}">>)
T_YearZzzTitle ==
    PyStr(<<"{", "year", "}", "-", "x", "-", "{", "zzz", "}", "_", "{", "title", "}">>)
T_Literal == PyStr(<<"x">>)
T_Broken == PyStr(<<"{", "}", "{", "title">>)
T_Empty == PyStr(<< >>)
TemplateStrings ==
    {T_TitleAuthor, T_AuthorTitle, T_YearZzzTitle, T_Literal, T_Broken, T_Empty}

FormatCalls ==
    {[fn |-> "format_new_name", info |-> i, template |-> NoTemplate] : i \in Infos}
        \cup {[fn |-> "format_new_name", info |-> i, template |-> t] :
                 i \in TemplateInfos, t \in TemplateStrings}
FormatInit == NoBatch /\ call \in FormatCalls /\ ret = NoReturn
CallFormatNewName ==
    /\ call.fn = "format_new_name"
    /\ ret = NoReturn
    /\ ret' = format_new_name(call.info, call.template)
    /\ UNCHANGED <<mainVars, call, credentials>>
FormatNext == CallFormatNewName
FormatSpec == FormatInit /\ [][FormatNext]_vars

(***************************************************************************)
(* The name a list of fields should give: the values of the fields that    *)
(* info has with a non-null, non-empty value, in the order of the list,    *)
(* with one "_" between two values.                                        *)
(***************************************************************************)
HasValue(info, f) ==
    /\ f \in DOMAIN info.v
    /\ info.v[f].t = "str"
    /\ info.v[f].v # << >>
RECURSIVE ExpectedJoin(_, _)
ExpectedJoin(info, fields) ==
    IF fields = << >> THEN << >>
    ELSE IF ~HasValue(info, Head(fields)) THEN ExpectedJoin(info, Tail(fields))
    ELSE IF ExpectedJoin(info, Tail(fields)) = << >> THEN info.v[Head(fields)].v
    ELSE info.v[Head(fields)].v \o <<"_">> \o ExpectedJoin(info, Tail(fields))
\* the values of these fields are letters only, so the name is the join
CleanValues(info, fields) ==
    \A k \in 1..Len(fields) :
        HasValue(info, fields[k]) => info.v[fields[k]].v = FieldValue(fields[k])

C17_Type(info, name) == "type" \in DOMAIN info.v /\ info.v["type"] = PyStr(name)
C17_Fields(info) ==
    IF C17_Type(info, NOTES) THEN <<"subject", "year", "author">>
    ELSE IF C17_Type(info, EXAM) THEN <<"subject", "date">>
    ELSE IF C17_Type(info, BOOK) THEN <<"title", "author">>
    ELSE IF C17_Type(info, PAPER) THEN <<"title", "first_author", "year">>
    ELSE <<"title", "subject">>
\* C17: with no template, format_new_name joins with "_" the non-null,
\* non-empty values of the fields its type selects (notes: subject, year,
\* author; exam: subject, date; book: title, author; paper: title,
\* first_author, year; any other, missing or null type: title, subject), in
\* that order; the joined name of values made of letters is the name
\* returned, and None is returned when no selected field has a value.
C17_RuleTable ==
    (call.fn = "format_new_name" /\ call.template = NoTemplate /\ ret # NoReturn) =>
        /\ FinalName(call.info, call.template) =
               Return(ExpectedJoin(call.info, C17_Fields(call.info)))
        /\ ExpectedJoin(call.info, C17_Fields(call.info)) = << >> =>
               ret = Return(PyNone)
        /\ (/\ ExpectedJoin(call.info, C17_Fields(call.info)) # << >>
            /\ CleanValues(call.info, C17_Fields(call.info))) =>
               ret = Return(PyStr(ExpectedJoin(call.info, C17_Fields(call.info))))
\* notes with subject s, year y, author a, and a title and a date that are
\* not selected, gave s_y_a
C17_Witness ==
    /\ call.fn = "format_new_name" /\ call.template = NoTemplate
    /\ C17_Type(call.info, NOTES)
    /\ \A f \in {"subject", "year", "author", "title", "date"} : HasValue(call.info, f)
    /\ ret = Return(PyStr(<<"s", "_", "y", "_", "a">>))

\* the {key} placeholders of a template, from left to right
C18_Placeholders(template) ==
    CASE template = T_TitleAuthor -> <<"title", "author">>
      [] template = T_AuthorTitle -> <<"author", "title">>
      [] template = T_YearZzzTitle -> <<"year", "zzz", "title">>
      [] template = T_Literal -> << >>
      [] template = T_Broken -> << >>
      [] template = T_Empty -> << >>
C18_FromPlaceholders ==
    /\ FinalName(call.info, call.template) =
           Return(ExpectedJoin(call.info, C18_Placeholders(call.template)))
    /\ ExpectedJoin(call.info, C18_Placeholders(call.template)) = << >> =>
           ret = Return(PyNone)
    /\ (/\ ExpectedJoin(call.info, C18_Placeholders(call.template)) # << >>
        /\ CleanValues(call.info, C18_Placeholders(call.template))) =>
           ret = Return(PyStr(ExpectedJoin(call.info, C18_Placeholders(call.template))))
\* C18: with a template, the name format_new_name joins is the "_"-join of
\* the non-null, non-empty values of the template's {key} placeholders, in
\* template order, whatever info.type is; no other field of info appears.
C18_TemplateOnly ==
    (call.fn = "format_new_name" /\ call.template # NoTemplate /\ ret # NoReturn) =>
        C18_FromPlaceholders
\* The same, for the templates that are not the empty string.
C18_NonEmptyTemplate ==
    (/\ call.fn = "format_new_name"
     /\ call.template \notin {NoTemplate, T_Empty}
     /\ ret # NoReturn) =>
        C18_FromPlaceholders
\* the empty template on a book with a title and an author gave t_a
C18_Witness ==
    /\ call.fn = "format_new_name" /\ call.template = T_Empty
    /\ C17_Type(call.info, BOOK)
    /\ ret = Return(PyStr(<<"t", "_", "a">>))
\* a template whose order is not the rule table's, on notes: a_t
C18_OrderWitness ==
    /\ call.fn = "format_new_name" /\ call.template = T_AuthorTitle
    /\ C17_Type(call.info, NOTES)
    /\ HasValue(call.info, "subject") /\ HasValue(call.info, "year")
    /\ ret = Return(PyStr(<<"a", "_", "t">>))

(***************************************************************************)
(* The sanitization of core.py lines 42-45 on its own: applied to a        *)
(* string, then applied to its own result.                                 *)
(***************************************************************************)
SanitizeAlphabet == {"a", "1", " ", "_", ".", "-", "!"}
SanitizeInputs == UNION {[1..n -> SanitizeAlphabet] : n \in 0..MaxLen}
SanitizeInit ==
    /\ NoBatch
    /\ call \in {[fn |-> "sanitize", final_name |-> x, round |-> 0] : x \in SanitizeInputs}
    /\ ret = NoReturn
Sanitize ==
    /\ call.fn = "sanitize" /\ call.round = 0
    /\ call' = [call EXCEPT !.round = 1]
    /\ ret' = Return(sanitize(call.final_name))
    /\ UNCHANGED <<mainVars, credentials>>
\* the name returned is sanitized again
SanitizeAgain ==
    /\ call.fn = "sanitize" /\ call.round = 1
    /\ call' = [call EXCEPT !.final_name = ret.value, !.round = 2]
    /\ ret' = Return(sanitize(ret.value))
    /\ UNCHANGED <<mainVars, credentials>>
SanitizeNext == Sanitize \/ SanitizeAgain
SanitizeSpec == SanitizeInit /\ [][SanitizeNext]_vars

\* only letters, digits and underscores; an underscore is neither first nor
\* last nor next to another underscore
C19_WellFormed(s) ==
    \A i \in 1..Len(s) :
        /\ s[i] \in Letters \cup DigitSet \cup {"_"}
        /\ s[i] = "_" => (1 < i /\ i < Len(s) /\ s[i + 1] # "_")
\* C19: a sanitized name holds only alphanumerics and single, interior
\* underscores, and sanitizing it again returns it unchanged.
C19_Step ==
    /\ ret' # NoReturn => C19_WellFormed(ret'.value)
    /\ (call.fn = "sanitize" /\ call.round = 1 /\ call'.round = 2) =>
           ret'.value = ret.value
C19_Idempotent == [][C19_Step]_vars
\* a string was sanitized to a_1, and a_1 was sanitized again
C19_Witness ==
    /\ call.fn = "sanitize" /\ call.round = 2
    /\ call.final_name = <<"a", "_", "1">>
    /\ ret = Return(<<"a", "_", "1">>)

\* The joined name is not empty and sanitization leaves nothing of it.
C20_SanitizedAway(info, template) ==
    /\ FinalName(info, template).tag = "return"
    /\ FinalName(info, template).value # << >>
    /\ sanitize(FinalName(info, template).value) = << >>
\* C20: format_new_name returns None whenever the sanitized name is empty,
\* also when the joined values are not empty and sanitization removes all
\* their characters.
C20_EmptyIsAbsent ==
    (/\ call.fn = "format_new_name"
     /\ ret # NoReturn
     /\ FinalName(call.info, call.template).tag = "return"
     /\ sanitize(FinalName(call.info, call.template).value) = << >>) =>
        ret = Return(PyNone)
\* a title of symbols only: the call returned the empty string
C20_Witness ==
    /\ call.fn = "format_new_name"
    /\ C20_SanitizedAway(call.info, call.template)
    /\ ret = Return(PyStr(<< >>))
\* The rest of C20, in a batch: a response whose name is sanitized away
\* gives the task the naming failure record and no destination, the step
\* changes no file, and no file ever has an empty stem.
C20_NamingFailureDecision ==
    \A w \in Workers, i \in Tasks, x \in ResponseTexts :
        (/\ Decides(w, i)
         /\ Truthy(parse_gemini_response(PyText(x)))
         /\ parse_gemini_response(PyText(x)).t = "dict"
         /\ C20_SanitizedAway(parse_gemini_response(PyText(x)), args.template)) =>
            LET d == DecisionNow(files_to_process[i], PyText(x))
            IN  /\ d.what = "return"
                /\ d.record = OutcomeRecord(files_to_process[i], NonePath, NAME_FAILED)
C20_NamingFailureStep ==
    /\ \A i \in Tasks :
           (Returns(i) /\ futures'[i].outcome.value.status = NAME_FAILED) =>
               fs' = fs /\ rename_calls'[i] = 0
    /\ \A p \in DOMAIN fs' : p.stem # << >>
C20_NamingFailure == [][C20_NamingFailureDecision /\ C20_NamingFailureStep]_vars

(***************************************************************************)
(* parse_gemini_response called on its own (analyzers.py lines 19-41), on  *)
(* None and on every text of up to MaxParts tokens.                        *)
(***************************************************************************)
JsonValues ==
    {BookInfo(<<"b">>), PyDict(<< >>), PyList(<<PyInt(1)>>), PyList(<< >>), PyNone}
ParseTokens == {WS, FENCE_JSON, FENCE, JUNK} \cup {Json(x) : x \in JsonValues}
ParseInputs ==
    {PyNone} \cup {PyText(x) : x \in UNION {[1..n -> ParseTokens] : n \in 0..MaxParts}}
ParseInit ==
    /\ NoBatch
    /\ call \in {[fn |-> "parse_gemini_response", response_text |-> x] : x \in ParseInputs}
    /\ ret = NoReturn
CallParse ==
    /\ call.fn = "parse_gemini_response"
    /\ ret = NoReturn
    /\ ret' = Return(parse_gemini_response(call.response_text))
    /\ UNCHANGED <<mainVars, call, credentials>>
ParseNext == CallParse
ParseSpec == ParseInit /\ [][ParseNext]_vars

\* What is left of a text without its fence markers and the whitespace
\* around them is one JSON value / one JSON object.
C21_OneValue(response_text) ==
    /\ response_text.t = "text"
    /\ Len(SelectSeq(response_text.v, LAMBDA k : k \notin {WS, FENCE_JSON, FENCE})) = 1
    /\ SelectSeq(response_text.v, LAMBDA k : k \notin {WS, FENCE_JSON, FENCE})[1].k = "json"
C21_TheValue(response_text) ==
    SelectSeq(response_text.v, LAMBDA k : k \notin {WS, FENCE_JSON, FENCE})[1].v
C21_OneObject(response_text) ==
    C21_OneValue(response_text) /\ C21_TheValue(response_text).t = "dict"

C21_ObjectOrFailure ==
    /\ ret.value # PyNone =>
           (C21_OneObject(call.response_text) /\ ret.value.t = "dict")
    /\ ~C21_OneObject(call.response_text) => ret.value = PyNone
\* C21: parse_gemini_response returns a value other than None only for a
\* text that is one JSON object once its fence markers and the whitespace
\* around it are removed; what it returns then is a dict, and for every
\* other input it returns None.
C21_ObjectOnly ==
    (call.fn = "parse_gemini_response" /\ ret # NoReturn) => C21_ObjectOrFailure
\* The same, for the inputs that are not a JSON value of another kind than
\* an object; a JSON object is returned as it is.
C21_ExceptOtherValues ==
    (/\ call.fn = "parse_gemini_response" /\ ret # NoReturn
     /\ ~(C21_OneValue(call.response_text) /\ ~C21_OneObject(call.response_text))) =>
        /\ C21_ObjectOrFailure
        /\ C21_OneObject(call.response_text) =>
               ret.value = C21_TheValue(call.response_text)
\* the fenced text [1] was parsed, and the list came back
C21_Witness ==
    /\ call.fn = "parse_gemini_response"
    /\ call.response_text = PyText(<<FENCE_JSON, Json(PyList(<<PyInt(1)>>)), FENCE>>)
    /\ ret = Return(PyList(<<PyInt(1)>>))

(***************************************************************************)
(* main() from its first line, cli.py lines 181-260: the command line is   *)
(* validated, the files are discovered and the pool size is computed       *)
(* before the pool of line 262 exists.  A path of the command line is the  *)
(* file a.pdf, the directory that holds a.pdf and b.pdf, a directory with  *)
(* no matching file, a path that does not exist, or one that is neither a  *)
(* file nor a directory.                                                   *)
(***************************************************************************)
InputPaths ==
    { << >>, <<"file">>, <<"dir">>, <<"emptydir">>, <<"missing">>, <<"special">>,
      <<"file", "file">>, <<"dir", "missing">> }
RunModes ==
    { [on_conflict |-> "skip", dry_run |-> FALSE],
      [on_conflict |-> "rename", dry_run |-> FALSE],
      [on_conflict |-> "overwrite", dry_run |-> TRUE] }
CommandLines ==
    {[on_conflict |-> m.on_conflict, dry_run |-> m.dry_run, quiet |-> FALSE,
      template |-> NoTemplate, api_key |-> k, input_paths |-> ps,
      recursive |-> r, jobs |-> j, ext_default |-> e] :
        m \in RunModes, k \in BOOLEAN, ps \in InputPaths, r \in BOOLEAN,
        j \in {NoJobs, 1}, e \in BOOLEAN}

\* utils.discover_files(args.input_paths, args.ext), line 218
Discovered(input_paths) ==
    IF \E k \in 1..Len(input_paths) : input_paths[k] = "dir"
    THEN [i \in SourceTasks |-> SourceFile(i)]
    ELSE IF \E k \in 1..Len(input_paths) : input_paths[k] = "file"
    THEN <<SourceFile(1)>>
    ELSE << >>

StartInit ==
    /\ args \in CommandLines
    /\ files_to_process = << >>
    /\ num_workers = 0
    /\ fs = [p \in {SourceFile(i) : i \in SourceTasks} \cup Bystanders |-> p.stem]
    /\ mpc = "start"
    /\ work_queue = << >>
    /\ futures = << >>
    /\ th = << >>
    /\ token_counter = 0
    /\ results = << >>
    /\ summary = NoSummary
    /\ exit_code = NoExit
    /\ taken = << >>
    /\ rename_calls = << >>
    /\ tokens_returned = 0
    /\ found_existing = << >>
    /\ credentials \in {NoCredentials, KeyInEnviron}
    /\ call = NoCall
    /\ ret = NoReturn

\* main() ends here: parser.error (exit code 2) or sys.exit.
ExitAtStart(why, code) ==
    /\ mpc' = why
    /\ exit_code' = code
    /\ UNCHANGED <<files_to_process, num_workers, futures, th, taken, rename_calls,
                   found_existing>>
\* main() goes on to line 262 with these files and this pool size.
GoOn(files, workers) ==
    /\ files_to_process' = files
    /\ num_workers' = workers
    /\ futures' = [i \in DOMAIN files |-> Future("NONE", NoOutcome)]
    /\ th' = [w \in 1..workers |-> IdleThread]
    /\ taken' = [i \in DOMAIN files |-> 0]
    /\ rename_calls' = [i \in DOMAIN files |-> 0]
    /\ found_existing' = [i \in DOMAIN files |-> FALSE]
    /\ mpc' = "setup"
    /\ UNCHANGED exit_code
\* lines 194-214, without -r
ValidateSingle ==
    IF Len(args.input_paths) > 1 THEN ExitAtStart("usage_error", 2)
    ELSE IF args.input_paths[1] \in {"dir", "emptydir"} THEN ExitAtStart("usage_error", 2)
    ELSE IF args.input_paths[1] = "missing" THEN ExitAtStart("usage_error", 2)
    ELSE IF args.input_paths[1] # "file" THEN ExitAtStart("usage_error", 2)
    ELSE IF ~args.ext_default THEN ExitAtStart("usage_error", 2)
    ELSE GoOn(<<SourceFile(1)>>, 1)
\* lines 216-233, with -r
\* (StartBatch_Unchecked: batch mode without the test of line 219.)
StartBatch_Unchecked ==
    \E cpu \in 0..MaxCpu :
        GoOn(Discovered(args.input_paths),
             PoolSize(args.jobs, cpu, Len(Discovered(args.input_paths))))
StartBatch ==
    IF Discovered(args.input_paths) = << >>
    THEN ExitAtStart("no_files_found", 0)
    ELSE \E cpu \in 0..MaxCpu :
            GoOn(Discovered(args.input_paths),
                 PoolSize(args.jobs, cpu, Len(Discovered(args.input_paths))))
Startup ==
    /\ mpc = "start"
    /\ IF args.api_key
       THEN \* lines 185-187 and credentials.py lines 48-57
            \E typed \in {<< >>, <<"q">>} :
               IF typed = << >>
               THEN ExitAtStart("no_key_entered", 1) /\ UNCHANGED credentials
               ELSE /\ ExitAtStart("key_saved", 0)
                    /\ credentials' = save_api_key(credentials, typed)
       ELSE /\ UNCHANGED credentials
            /\ IF args.input_paths = << >> THEN ExitAtStart("usage_error", 2)
               ELSE IF ~args.recursive THEN ValidateSingle
               ELSE StartBatch
    /\ UNCHANGED <<args, fs, work_queue, token_counter, results, summary,
                   tokens_returned, call, ret>>
StartNext == Startup \/ Next
StartSpec == StartInit /\ [][StartNext]_vars

\* the directory at the start of main()
C22_DirectoryAtStart ==
    [p \in {SourceFile(i) : i \in SourceTasks} \cup Bystanders |-> p.stem]
\* main() has called discover_files and it found nothing
C22_NothingDiscovered ==
    /\ mpc # "start"
    /\ ~args.api_key
    /\ args.recursive
    /\ args.input_paths # << >>
    /\ Discovered(args.input_paths) = << >>
\* C22: in batch mode with no file discovered the run has printed the
\* no-files-found message and exited with code 0; there is no pool and no
\* task, no analysis was called, the directory is as it was, and the run
\* takes no further step.
C22_NoFilesFound ==
    C22_NothingDiscovered =>
        /\ mpc = "no_files_found"
        /\ exit_code = 0
        /\ th = << >> /\ num_workers = 0
        /\ files_to_process = << >> /\ futures = << >> /\ work_queue = << >>
        /\ taken = << >> /\ rename_calls = << >>
        /\ tokens_returned = 0
        /\ fs = C22_DirectoryAtStart
        /\ ~ENABLED StartNext
\* -r on a directory that holds no matching file
C22_Witness ==
    /\ mpc = "no_files_found"
    /\ args.recursive
    /\ args.input_paths = <<"emptydir">>
    /\ exit_code = 0

\* The validation of lines 190-211 refused the command line: the run ended
\* with the usage error (exit code 2) before there was a pool or a task; no
\* analysis was called and the directory is as it was.
C24_UsageErrorsAbort ==
    mpc = "usage_error" =>
        /\ exit_code = 2
        /\ th = << >> /\ files_to_process = << >> /\ taken = << >>
        /\ tokens_returned = 0
        /\ fs = C22_DirectoryAtStart
        /\ ~ENABLED StartNext
\* main() dispatched the tasks and the process has ended, not by Ctrl-C.
C24_EndedAfterDispatch ==
    /\ mpc \in {"done", "crashed"}
    /\ exit_code # NoExit
\* C24: a command line the validation refuses ends the run before any file
\* is analysed or renamed, and once the tasks are dispatched no error ends
\* the run before every task has its outcome record.
C24_OnlyValidationIsFatal ==
    /\ C24_UsageErrorsAbort
    /\ C24_EndedAfterDispatch => \A i \in Tasks : Returned(i)
\* Without an API key the first task raised SystemExit; the run ended with
\* the second task cancelled.
C24_Witness ==
    /\ mpc = "crashed"
    /\ credentials = NoCredentials
    /\ Len(files_to_process) = 2
    /\ futures[1].outcome = Raise("SystemExit")
    /\ futures[2].state = "CANCELLED"
\* a directory without -r was refused
C24_UsageWitness ==
    /\ mpc = "usage_error"
    /\ ~args.recursive
    /\ args.input_paths = <<"dir">>

(***************************************************************************)
(* discover_files, llmtitle/utils.py lines 23-47, called on its own on a   *)
(* small tree, as tests/test_utils.py does:                                *)
(*     d/f1.pdf   d/f2.txt   d/noext   d/ln.pdf -> d/f1.pdf                *)
(*     d/sub/f3.PDF                                                        *)
(* An entry is named by its path from the working directory.               *)
(***************************************************************************)
Entry(kind, parent, suffix, target) ==
    [kind |-> kind, parent |-> parent, suffix |-> suffix, target |-> target]
Tree ==
    [e \in {"d", "d/f1.pdf", "d/f2.txt", "d/noext", "d/ln.pdf", "d/sub",
            "d/sub/f3.PDF"} |->
        CASE e = "d" -> Entry("dir", "", << >>, "")
          [] e = "d/f1.pdf" -> Entry("file", "d", <<".", "p", "d", "f">>, "")
          [] e = "d/f2.txt" -> Entry("file", "d", <<".", "t", "x", "t">>, "")
          [] e = "d/noext" -> Entry("file", "d", << >>, "")
          [] e = "d/ln.pdf" -> Entry("symlink", "d", <<".", "p", "d", "f">>, "d/f1.pdf")
          [] e = "d/sub" -> Entry("dir", "d", << >>, "")
          [] e = "d/sub/f3.PDF" -> Entry("file", "d/sub", <<".", "P", "D", "F">>, "")]
\* The strings a root may be; "./d/f1.pdf" is another spelling of d/f1.pdf
\* and "gone" names nothing.
RootStrings ==
    {"d", "d/sub", "d/f1.pdf", "./d/f1.pdf", "d/ln.pdf", "d/sub/f3.PDF",
     "d/f2.txt", "gone"}
\* pathlib.Path(path_str): the entry the string names
PathOf(path_str) == IF path_str = "./d/f1.pdf" THEN "d/f1.pdf" ELSE path_str
\* what a path leads to once its symbolic links are followed
Followed(e) == IF Tree[e].kind = "symlink" THEN Tree[e].target ELSE e
PathExists(e) == e \in DOMAIN Tree /\ Followed(e) \in DOMAIN Tree
IsFile(e) == PathExists(e) /\ Tree[Followed(e)].kind = "file"
IsDir(e) == PathExists(e) /\ Tree[Followed(e)].kind = "dir"
\* path.resolve(): the absolute path, symbolic links resolved
Resolved(e) == [absolute |-> TRUE, path |-> Followed(e)]
\* path.rglob('*'): every entry below the directory, at any depth
RECURSIVE IsBelow(_, _)
IsBelow(e, dir) ==
    /\ Tree[e].parent # ""
    /\ (Tree[e].parent = dir \/ IsBelow(Tree[e].parent, dir))
RGlob(dir) == {e \in DOMAIN Tree : IsBelow(e, dir)}

\* str.lower() and str.strip() on the characters of extensions
LowerChar(c) ==
    CASE c = "P" -> "p" [] c = "D" -> "d" [] c = "F" -> "f"
      [] c = "T" -> "t" [] c = "X" -> "x" [] OTHER -> c
Lower(str) == [i \in 1..Len(str) |-> LowerChar(str[i])]
\* str.split(','): the pieces between the commas
RECURSIVE SplitFrom(_, _)
SplitFrom(str, piece) ==
    IF str = << >> THEN <<piece>>
    ELSE IF Head(str) = "," THEN <<piece>> \o SplitFrom(Tail(str), << >>)
    ELSE SplitFrom(Tail(str), Append(piece, Head(str)))
Split(str) == SplitFrom(str, << >>)
\* line 31: {f".{ext.strip().lower()}" for ext in extensions_str.split(',')}
AllowedExtensions(extensions_str) ==
    {<<".">> \o Lower(Strip(Split(extensions_str)[k], " ")) :
        k \in 1..Len(Split(extensions_str))}

\* lines 33-45: what one root adds to the set
FoundUnder(path_str, allowed) ==
    IF ~PathExists(PathOf(path_str)) THEN {}
    ELSE IF IsFile(PathOf(path_str))
    THEN IF Lower(Tree[PathOf(path_str)].suffix) \in allowed
         THEN {Resolved(PathOf(path_str))} ELSE {}
    ELSE IF IsDir(PathOf(path_str))
    THEN {Resolved(e) : e \in {f \in RGlob(PathOf(path_str)) :
                                  IsFile(f) /\ Lower(Tree[f].suffix) \in allowed}}
    ELSE {}
\* (discover_files_FirstRootOnly: a discovery that stops after the first root.)
discover_files_FirstRootOnly(input_paths, extensions_str) ==
    IF input_paths = << >> THEN {}
    ELSE FoundUnder(input_paths[1], AllowedExtensions(extensions_str))
\* the set files_to_process of line 47
discover_files(input_paths, extensions_str) ==
    UNION {FoundUnder(input_paths[k], AllowedExtensions(extensions_str)) :
              k \in 1..Len(input_paths)}
\* list(a set): its elements once each, in some order
ListsOf(S) ==
    {q \in [1..Cardinality(S) -> S] : \A x \in S : \E i \in 1..Cardinality(S) : q[i] = x}

ExtensionStrings ==
    { <<"p", "d", "f">>,
      <<"P", "D", "F", ",", "t", "x", "t">>,
      <<" ", "p", "d", "f", " ", ",", " ", "T", "X", "T">>,
      <<"t", "x", "t">>,
      <<"d", "o", "c">> }
DiscoverCalls ==
    {[fn |-> "discover_files", input_paths |-> ps, extensions_str |-> x] :
        ps \in UNION {[1..n -> RootStrings] : n \in 0..MaxRoots},
        x \in ExtensionStrings}
DiscoverInit == NoBatch /\ call \in DiscoverCalls /\ ret = NoReturn
CallDiscoverFiles ==
    /\ call.fn = "discover_files"
    /\ ret = NoReturn
    /\ \E files \in ListsOf(discover_files(call.input_paths, call.extensions_str)) :
          ret' = Return(files)
    /\ UNCHANGED <<mainVars, call, credentials>>
DiscoverNext == CallDiscoverFiles
DiscoverSpec == DiscoverInit /\ [][DiscoverNext]_vars

\* The tree again, as the claim sees it: the regular files (a symbolic link
\* to a file counts as the file it leads to), their extension in lower
\* case, the directory roots they lie under, their canonical path.
C23_Files == {"d/f1.pdf", "d/f2.txt", "d/noext", "d/ln.pdf", "d/sub/f3.PDF"}
C23_Extension(f) ==
    CASE f \in {"d/f1.pdf", "d/ln.pdf", "d/sub/f3.PDF"} -> "pdf"
      [] f = "d/f2.txt" -> "txt"
      [] OTHER -> ""
C23_Canonical(f) ==
    [absolute |-> TRUE, path |-> IF f = "d/ln.pdf" THEN "d/f1.pdf" ELSE f]
C23_Names(root, f) ==
    \/ root = f
    \/ root = "./d/f1.pdf" /\ f = "d/f1.pdf"
    \/ root = "d"
    \/ root = "d/sub" /\ f = "d/sub/f3.PDF"
C23_AllowList(extensions_str) ==
    CASE extensions_str = <<"p", "d", "f">> -> {"pdf"}
      [] extensions_str = <<"t", "x", "t">> -> {"txt"}
      [] extensions_str = <<"d", "o", "c">> -> {"doc"}
      [] OTHER -> {"pdf", "txt"}
C23_Expected(input_paths, extensions_str) ==
    {C23_Canonical(f) :
        f \in {g \in C23_Files :
                  /\ C23_Extension(g) \in C23_AllowList(extensions_str)
                  /\ \E k \in 1..Len(input_paths) : C23_Names(input_paths[k], g)}}
\* C23: discover_files returns exactly the canonical paths of the regular
\* files with an allowed extension (whatever its case) that a root names or
\* that lie at any depth under a directory root, each once, also when
\* roots repeat or overlap; a root that does not exist adds nothing and the
\* other roots are still searched.
C23_Discovery ==
    (call.fn = "discover_files" /\ ret # NoReturn) =>
        /\ {ret.value[i] : i \in 1..Len(ret.value)} =
               C23_Expected(call.input_paths, call.extensions_str)
        /\ \A i, j \in 1..Len(ret.value) : ret.value[i] = ret.value[j] => i = j
\* the roots "gone" and "d" with "PDF,txt": the three files under d, the
\* link ln.pdf and f1.pdf as one path
C23_Witness ==
    /\ call.fn = "discover_files"
    /\ call.input_paths = <<"gone", "d">>
    /\ call.extensions_str = <<"P", "D", "F", ",", "t", "x", "t">>
    /\ ret # NoReturn
    /\ Len(ret.value) = 3
    /\ \E i \in 1..3 : ret.value[i] = [absolute |-> TRUE, path |-> "d/sub/f3.PDF"]

(***************************************************************************)
(* A run in which one remote call never returns, under fair scheduling and *)
(* without Ctrl-C.  The thread whose call hangs stays inside analyze()     *)
(* (analyzers.py line 125 or 220) for ever: no timeout is set.  Every      *)
(* other step that can be taken is taken eventually.                       *)
(***************************************************************************)
LiveInit == Init /\ ~args.quiet /\ args.template = NoTemplate
\* the remote call of thread w is the one that never returns
Hang(w) ==
    /\ th[w].pc = "analyze"
    /\ \A v \in Workers : th[v].pc # "hung"
    /\ th' = [th EXCEPT ![w].pc = "hung"]
    /\ UNCHANGED <<args, files_to_process, num_workers, fs, mpc, work_queue,
                   futures, token_counter, results, summary, exit_code, taken,
                   rename_calls, tokens_returned, found_existing, call, ret,
                   credentials>>
Finish(w) == FinishDryRun(w) \/ FinishRename(w) \/ FinishOSError(w)
LiveNext ==
    \/ Submit
    \/ CollectResult
    \/ CollectRaises
    \/ ExitAfterUnwind
    \/ Report
    \/ \E w \in Workers : Take(w)
    \/ \E w \in Workers : Hang(w)
    \/ \E w \in Workers : Analyze(w)
    \/ \E w \in Workers : Probe(w)
    \/ \E w \in Workers : Finish(w)
Fairness ==
    /\ WF_vars(Submit)
    /\ WF_vars(CollectResult)
    /\ \A w \in SourceTasks :
          /\ WF_vars(w \in Workers /\ Take(w))
          /\ WF_vars(w \in Workers /\ Analyze(w))
          /\ WF_vars(w \in Workers /\ Probe(w))
          /\ WF_vars(w \in Workers /\ Finish(w))
LiveSpec == LiveInit /\ [][LiveNext]_vars /\ Fairness

\* The pool has at least two workers and the call that hangs is not the
\* call of task i.
C25_AnotherHangs(i) ==
    /\ num_workers >= 2
    /\ \E w \in Workers : th[w].pc = "hung" /\ th[w].task # i
\* C25: when a remote call never returns and the pool has two workers or
\* more, every other task eventually has its outcome record.
C25_OthersComplete ==
    \A i \in SourceTasks : C25_AnotherHangs(i) ~> Returned(i)
\* The same for the end of the worker function, by a record or by an
\* exception: every other task is taken and runs to the end of
\* process_and_rename_file.
C25_OthersRunToTheEnd ==
    \A i \in SourceTasks : C25_AnotherHangs(i) ~> Finished(i)
\* the call of task 1 hangs and task 2 was renamed
C25_Witness ==
    /\ \E w \in Workers : th[w].pc = "hung" /\ th[w].task = 1
    /\ Returned(2)
    /\ RecordOf(2).status = "success"
    /\ rename_calls[2] = 1
\* the call of task 1 hangs and task 2 ended with an exception
C25_RaiseWitness ==
    /\ \E w \in Workers : th[w].pc = "hung" /\ th[w].task = 1
    /\ Finished(2)
    /\ futures[2].outcome.tag = "raise"

(***************************************************************************)
(* save_api_key and load_api_key called in any order in one process        *)
(* (credentials.py lines 23-46), starting without a key in os.environ and  *)
(* without the file.  call.last_saved is history: the key of the most      *)
(* recent save_api_key that returned, None before the first.               *)
(***************************************************************************)
ApiKeys == UNION {[1..n -> {"k", "2"}] : n \in 1..MaxKeyLen}
CredentialsInit ==
    /\ NoBatch
    /\ call = [fn |-> "credentials", op |-> "none", last_saved |-> PyNone]
    /\ ret = NoReturn
CallSaveApiKey ==
    /\ call.fn = "credentials"
    /\ \E api_key \in ApiKeys :
          \/ /\ credentials' = save_api_key(credentials, api_key)
             /\ call' = [call EXCEPT !.op = "save", !.last_saved = PyStr(api_key)]
             /\ ret' = Return(PyNone)
          \/ \* lines 35-37: set_key raised IOError, sys.exit(1)
             /\ UNCHANGED credentials
             /\ call' = [call EXCEPT !.op = "save_failed"]
             /\ ret' = Raise("SystemExit")
    /\ UNCHANGED mainVars
CallLoadApiKey ==
    /\ call.fn = "credentials"
    /\ credentials' = load_api_key(credentials).credentials
    /\ call' = [call EXCEPT !.op = "load"]
    /\ ret' = Return(load_api_key(credentials).value)
    /\ UNCHANGED mainVars
CredentialsNext == CallSaveApiKey \/ CallLoadApiKey
CredentialsSpec == CredentialsInit /\ [][CredentialsNext]_vars

\* C26: whatever save_api_key and load_api_key calls came before,
\* load_api_key returns the key of the most recent save_api_key, and None
\* when no key was saved.
C26_RoundTrip ==
    (call.fn = "credentials" /\ call.op = "load") => ret = Return(call.last_saved)
\* The same for a load_api_key that finds GEMINI_API_KEY unset in
\* os.environ: the first load of the process.
C26_FirstLoad ==
    [][(call.fn = "credentials" /\ call'.op = "load" /\ credentials.environ = PyNone)
          => ret' = Return(call.last_saved)]_vars
\* save k, load, save k2, load: the second load returned k
C26_Witness ==
    /\ call.fn = "credentials" /\ call.op = "load"
    /\ call.last_saved = PyStr(<<"k", "2">>)
    /\ credentials.env_file = PyStr(<<"'", "k", "2", "'">>)
    /\ ret = Return(PyStr(<<"k">>))

(***************************************************************************)
(* Runs with fixed remote responses and a fixed initial directory: the     *)
(* response of the remote capability to each FileTask and the directory    *)
(* the run starts in are chosen once; the pool size and the interleaving   *)
(* of main() and the workers are free.  No Ctrl-C, an API key in the       *)
(* environment, and an operating system that refuses no rename.            *)
(***************************************************************************)
OrderTexts ==
    { <<JUNK>>,
      <<FENCE_JSON, WS, Json(BookInfo(<<"n">>)), WS, FENCE>>,
      <<Json(BookInfo(<<"b">>))>>,
      <<Json(BookInfo(<<"m">>))>>,
      <<Json(PyDict([title |-> PyInt(5)]))>> }
OrderResults == {<<PyNone, 0>>} \cup {<<PyText(x), 1>> : x \in OrderTexts}
OrderInit ==
    /\ Init
    /\ ~args.quiet
    /\ args.template = NoTemplate
    /\ credentials = KeyInEnviron
OrderStart ==
    /\ mpc = "setup"
    /\ call = NoCall
    /\ \E rs \in [SourceTasks -> OrderResults] :
          call' = [fn |-> "run", responses |-> rs, directory |-> fs]
    /\ Submit!2
    /\ Submit!3
    /\ mpc' = "collect"
    /\ UNCHANGED <<args, files_to_process, num_workers, fs, th, token_counter,
                   results, summary, exit_code, taken, rename_calls,
                   tokens_returned, found_existing, ret, credentials>>
\* analyze() of thread w returns the response fixed for its task
OrderAnalyze(w) ==
    /\ th[w].pc = "analyze"
    /\ AnalyzeReturns(w, call.responses[th[w].task])
    /\ UNCHANGED <<args, files_to_process, num_workers, fs, mpc, work_queue,
                   results, summary, exit_code, taken, rename_calls, call, ret,
                   credentials>>
OrderNext ==
    \/ OrderStart
    \/ CollectResult
    \/ CollectRaises
    \/ ExitAfterUnwind
    \/ Report
    \/ \E w \in Workers : Take(w)
    \/ \E w \in Workers : OrderAnalyze(w)
    \/ \E w \in Workers : Probe(w)
    \/ \E w \in Workers : FinishDryRun(w)
    \/ \E w \in Workers : FinishRename(w)
OrderSpec == OrderInit /\ [][OrderNext]_vars

\* process_and_rename_file(filepath, ...) run from its first line to its
\* last with nobody else touching the directory dir, the remote capability
\* answering r: what it returns or raises, and the directory afterwards.
process_and_rename_file(dir, fp, r) ==
    LET d == ResolveDecision(fp, r[1], args.template, args.on_conflict, DOMAIN dir)
        new_filepath == IF d.what = "get_unique_path"
                        THEN get_unique_path(DOMAIN dir, d.new_filepath)
                        ELSE d.new_filepath
    IN  IF d.what = "return" THEN [outcome |-> Return(d.record), dir |-> dir]
        ELSE IF d.what = "raise" THEN [outcome |-> Raise(d.exc), dir |-> dir]
        ELSE IF args.dry_run
        THEN [outcome |-> Return(OutcomeRecord(fp, new_filepath, "dry_run_success")),
              dir |-> dir]
        ELSE [outcome |-> Return(OutcomeRecord(fp, new_filepath, "success")),
              dir |-> Renamed(dir, fp, new_filepath)]

\* The run of a pool of one worker that main() does not overtake: the
\* tasks 1..k one after the other in the order of submission.
RECURSIVE InOrder(_)
InOrder(k) ==
    IF k = 0 THEN [dir |-> call.directory, outcome |-> << >>]
    ELSE LET before == InOrder(k - 1)
             run == process_and_rename_file(before.dir, files_to_process[k],
                                            call.responses[k])
         IN  [dir |-> run.dir, outcome |-> Append(before.outcome, run.outcome)]

AllFinished == call # NoCall /\ \A i \in Tasks : Finished(i)

\* C27 as stated: tasks are independent.  For fixed FileTasks, fixed remote
\* responses and a fixed initial directory, every run in which all tasks
\* have an outcome ends with the outcomes and the directory of the run that
\* processes the tasks one after the other in the order of submission.
C27_OrderIndependent ==
    AllFinished =>
        /\ \A i \in Tasks : futures[i].outcome = InOrder(Len(files_to_process)).outcome[i]
        /\ fs = InOrder(Len(files_to_process)).dir

\* The path task i computes at core.py line 106, if it gets that far.
C27_Destination(i) ==
    ResolveDecision(files_to_process[i], call.responses[i][1], args.template,
                    args.on_conflict, {}).new_filepath
\* No task computes the path another task computes or starts from.
C27_NamesApart ==
    \A i, j \in Tasks :
        i # j /\ C27_Destination(i) # NonePath =>
            C27_Destination(i) \notin {C27_Destination(j), files_to_process[j]}

\* C27, amended: when no task computes a path that another task computes
\* or starts from, every task that has an outcome has the outcome it has
\* when it runs alone in the initial directory, and once all tasks have an
\* outcome the directory is the one the in-order run leaves.
C27_IndependentWhenNamesApart ==
    call # NoCall /\ C27_NamesApart =>
        /\ \A i \in Tasks : Finished(i) =>
              futures[i].outcome =
                  process_and_rename_file(call.directory, files_to_process[i],
                                          call.responses[i]).outcome
        /\ AllFinished => fs = InOrder(Len(files_to_process)).dir

\* Two workers, both files renamed to different names.
C27_ApartWitness ==
    /\ AllFinished
    /\ C27_NamesApart
    /\ num_workers = 2
    /\ \A i \in Tasks : Returned(i) /\ futures[i].outcome.value.status = "success"
    /\ fs[Path(<<"m">>, PDF)] = <<"b">>

\* Both responses name the book "m", policy skip: the second file got the
\* name and the first one was skipped, where the in-order run renames the
\* first and skips the second.
C27_Witness ==
    /\ AllFinished
    /\ args.on_conflict = "skip"
    /\ ~args.dry_run
    /\ futures[1].outcome =
          Return(OutcomeRecord(SourceFile(1), Path(<<"m">>, PDF), "conflict_skipped"))
    /\ futures[2].outcome =
          Return(OutcomeRecord(SourceFile(2), Path(<<"m">>, PDF), "success"))
    /\ InOrder(2).outcome[1].value.status = "success"
    /\ fs[Path(<<"m">>, PDF)] = <<"b">>
    /\ InOrder(2).dir[Path(<<"m">>, PDF)] = <<"a">>

(***************************************************************************)
(* The content handed to the remote capability for one file, by            *)
(* DocumentAnalyzer.analyze of srn (analyzers.py lines 95-134) and by      *)
(* get_new_filename_from_gemini of llmtitle (gemini.py lines 74-127), for  *)
(* PDF files of up to MaxPages pages, a text file, a missing file and a    *)
(* PDF that PdfReader cannot read, with and without --max-pages.           *)
(***************************************************************************)
MaxPages == 3

\* page.extract_text() of one page: None, "" or a text
PageTexts == {PyNone, PyStr(<< >>), PyStr(<<"p">>), PyStr(<<"q">>)}
APPLICATION_PDF == "application/pdf"
TEXT_PLAIN == "text/plain"
\* A file: whether it exists, its content type, its pages (a PDF), whether
\* PdfReader reads it, and its bytes (here: the name of its content).
DocFile(exists, mime_type, pages, readable) ==
    [exists |-> exists, mime_type |-> mime_type, pages |-> pages,
     readable |-> readable, bytes |-> <<mime_type, pages>>]
DocFiles ==
    {DocFile(TRUE, APPLICATION_PDF, pages, TRUE) :
        pages \in UNION {[1..n -> PageTexts] : n \in 0..MaxPages}}
    \cup {DocFile(TRUE, APPLICATION_PDF, <<PyStr(<<"p">>)>>, FALSE),
          DocFile(TRUE, TEXT_PLAIN, << >>, TRUE),
          DocFile(FALSE, APPLICATION_PDF, << >>, TRUE)}
\* --max-pages: absent, or an integer
MaxPagesValues == {PyNone} \cup {PyInt(n) : n \in -1..(MaxPages + 1)}

Part_from_text(text) == [part |-> "text", text |-> text]
Part_from_bytes(data, mime_type) == [part |-> "bytes", data |-> data, mime_type |-> mime_type]
\* generate_content(contents=[file_part, prompt]) was called / the function
\* returned (None, 0) before any call
Sent(file_part, prompt) == [sent |-> TRUE, file_part |-> file_part, prompt |-> prompt]
NothingSent == [sent |-> FALSE]
\* the prompt: the base text and, in srn, the line of analyzers.py 114-115
Prompt(first_pages) == [base |-> "prompt", first_pages |-> first_pages]
PageCapSet(max_pages) == max_pages # PyNone /\ max_pages.v > 0

\* llmtitle/gemini.py lines 88-92: the loop over reader.pages from page i on
RECURSIVE PagesText(_, _, _)
PagesText(pages, i, max_pages) ==
    IF i > Len(pages) \/ i - 1 >= max_pages THEN << >>
    ELSE (IF Truthy(pages[i]) THEN pages[i].v ELSE << >>)
             \o PagesText(pages, i + 1, max_pages)

\* llmtitle: get_new_filename_from_gemini, gemini.py lines 74-127
get_new_filename_from_gemini(file, max_pages) ==
    IF ~file.exists THEN NothingSent
    ELSE IF file.mime_type = APPLICATION_PDF /\ PageCapSet(max_pages)
    THEN IF ~file.readable THEN NothingSent
         ELSE Sent(Part_from_text(PagesText(file.pages, 1, max_pages.v)), Prompt(PyNone))
    ELSE Sent(Part_from_bytes(file.bytes, file.mime_type), Prompt(PyNone))

\* srn: DocumentAnalyzer.analyze, analyzers.py lines 95-134: the bytes of
\* the file whatever max_pages is; a page cap only adds a line to the prompt.
DocumentAnalyzer_analyze(file, max_pages) ==
    IF ~file.exists THEN NothingSent
    ELSE Sent(Part_from_bytes(file.bytes, file.mime_type),
              Prompt(IF PageCapSet(max_pages) THEN max_pages ELSE PyNone))

PagesInit ==
    /\ NoBatch
    /\ call \in {[fn |-> f, file |-> d, max_pages |-> n] :
                    f \in {"DocumentAnalyzer.analyze", "get_new_filename_from_gemini"},
                    d \in DocFiles, n \in MaxPagesValues}
    /\ ret = NoReturn
CallAnalyze ==
    /\ call.fn = "DocumentAnalyzer.analyze"
    /\ ret = NoReturn
    /\ ret' = DocumentAnalyzer_analyze(call.file, call.max_pages)
    /\ UNCHANGED <<mainVars, call, credentials>>
CallGetNewFilename ==
    /\ call.fn = "get_new_filename_from_gemini"
    /\ ret = NoReturn
    /\ ret' = get_new_filename_from_gemini(call.file, call.max_pages)
    /\ UNCHANGED <<mainVars, call, credentials>>
PagesNext == CallAnalyze \/ CallGetNewFilename
PagesSpec == PagesInit /\ [][PagesNext]_vars

\* The texts of the first n pages, one after the other.
RECURSIVE C28_TextOfFirst(_, _)
C28_TextOfFirst(pages, n) ==
    IF n = 0 THEN << >>
    ELSE C28_TextOfFirst(pages, n - 1)
            \o (IF pages[n] \in {PyNone, PyStr(<< >>)} THEN << >> ELSE pages[n].v)
\* The call was made for a PDF with a page cap N > 0 and sent something.
C28_CappedPdfSent ==
    /\ call.fn \in {"DocumentAnalyzer.analyze", "get_new_filename_from_gemini"}
    /\ ret # NoReturn
    /\ ret.sent
    /\ call.file.mime_type = APPLICATION_PDF
    /\ call.max_pages # PyNone
    /\ call.max_pages.v > 0
C28_FirstPagesSent ==
    ret.file_part =
        Part_from_text(C28_TextOfFirst(call.file.pages,
                                       Min(call.max_pages.v, Len(call.file.pages))))

\* C28: when a page cap N > 0 is set and the file is a PDF, the content sent
\* to the remote capability is the text of the first min(N, page count)
\* pages in page order, not the bytes of the file, and holds no text of a
\* later page.
C28_OnlyFirstPages == C28_CappedPdfSent => C28_FirstPagesSent

\* The same, for get_new_filename_from_gemini of llmtitle alone.
C28_OnlyFirstPagesLlmtitle ==
    C28_CappedPdfSent /\ call.fn = "get_new_filename_from_gemini" => C28_FirstPagesSent

\* In srn a page cap reaches the remote capability as a line of the prompt
\* and the file goes out whole.
C28_SrnSendsBytes ==
    C28_CappedPdfSent /\ call.fn = "DocumentAnalyzer.analyze" =>
        /\ ret.file_part = Part_from_bytes(call.file.bytes, APPLICATION_PDF)
        /\ ret.prompt.first_pages = call.max_pages

\* srn --max-pages 1 on a PDF of two pages "p", "q": the bytes of both
\* pages were sent.
C28_Witness ==
    /\ C28_CappedPdfSent
    /\ call.fn = "DocumentAnalyzer.analyze"
    /\ call.max_pages = PyInt(1)
    /\ call.file.pages = <<PyStr(<<"p">>), PyStr(<<"q">>)>>
    /\ ret.file_part.part = "bytes"
    /\ ret.file_part.data = call.file.bytes
\* llmtitle, the case of tests/test_gemini.py: only "p" was sent.
C28_LlmtitleWitness ==
    /\ C28_CappedPdfSent
    /\ call.fn = "get_new_filename_from_gemini"
    /\ call.max_pages = PyInt(1)
    /\ call.file.pages = <<PyStr(<<"p">>), PyStr(<<"q">>)>>
    /\ ret.file_part = Part_from_text(<<"p">>)

\* Every content the directory held when the run started is still in it.
C29_NothingLost ==
    \A p \in DOMAIN call.directory : \E q \in DOMAIN fs : fs[q] = call.directory[p]
\* No two tasks report success with the same new_path.
C29_SuccessesApart ==
    \A i, j \in Tasks :
        /\ i # j
        /\ Returned(i) /\ futures[i].outcome.value.status = "success"
        /\ Returned(j) /\ futures[j].outcome.value.status = "success"
        => futures[i].outcome.value.new_path # futures[j].outcome.value.new_path

\* C29: under policy skip or rename, with any number of workers and any
\* interleaving, a successful rename never replaces a file that was at the
\* destination: no content present before the run is lost, and no two
\* tasks report success with the same new_path.
C29_NoClobber ==
    call # NoCall /\ args.on_conflict \in {"skip", "rename"} =>
        C29_NothingLost /\ C29_SuccessesApart

\* The same for a pool of one worker, where no task runs between the look
\* at the directory and the rename of another.
C29_NoClobberOneWorker ==
    call # NoCall /\ args.on_conflict \in {"skip", "rename"} /\ num_workers = 1 =>
        C29_NothingLost /\ C29_SuccessesApart

\* Policy skip, two workers, both responses name the book "m": both tasks
\* report success with m.pdf, which holds the content of b.pdf; the content
\* of a.pdf is gone.
C29_Witness ==
    /\ AllFinished
    /\ args.on_conflict = "skip"
    /\ num_workers = 2
    /\ \A i \in Tasks :
          futures[i].outcome =
              Return(OutcomeRecord(SourceFile(i), Path(<<"m">>, PDF), "success"))
    /\ fs[Path(<<"m">>, PDF)] = <<"b">>
    /\ \A q \in DOMAIN fs : fs[q] # <<"a">>
\* One worker, policy rename, a.pdf named after the existing b.pdf: it went
\* to b_1.pdf and b.pdf kept its content, which its own task then moved to m.pdf.
C29_OneWorkerWitness ==
    /\ AllFinished
    /\ args.on_conflict = "rename"
    /\ num_workers = 1
    /\ futures[1].outcome =
          Return(OutcomeRecord(SourceFile(1), Path(<<"b", "_", "1">>, PDF), "success"))
    /\ futures[2].outcome =
          Return(OutcomeRecord(SourceFile(2), Path(<<"m">>, PDF), "success"))
    /\ fs[Path(<<"b", "_", "1">>, PDF)] = <<"a">>
    /\ fs[Path(<<"m">>, PDF)] = <<"b">>

(***************************************************************************)
(* The path a record carries as new_path, character by character: the      *)
(* sanitized name (core.py lines 39-47), the extension added to it (lines  *)
(* 104-105), Path.with_name (line 106) and the candidates of               *)
(* get_unique_path (lines 54-61), with the name, stem and suffix of        *)
(* pathlib.  A path is its parent directory and its name.                  *)
(***************************************************************************)
FsPath(parent, name) == [parent |-> parent, name |-> name]

\* index of the last "." of name, 0 when there is none (str.rfind)
RECURSIVE RFindDot(_, _)
RFindDot(name, i) ==
    IF i = 0 THEN 0 ELSE IF name[i] = "." THEN i ELSE RFindDot(name, i - 1)
\* PurePath.suffix: from the last dot on, unless that dot is the first or
\* the last character of the name
PathSuffix(name) ==
    IF RFindDot(name, Len(name)) > 1 /\ RFindDot(name, Len(name)) < Len(name)
    THEN SubSeq(name, RFindDot(name, Len(name)), Len(name))
    ELSE << >>
\* PurePath.stem
PathStem(name) == SubSeq(name, 1, Len(name) - Len(PathSuffix(name)))

\* PurePath.with_name(name): ValueError for an empty name, a name with a
\* separator in it, and "."
with_name(path, name) ==
    IF name = << >> \/ name = <<".">> \/ \E i \in 1..Len(name) : name[i] = "/"
    THEN Raise("ValueError")
    ELSE Return(FsPath(path.parent, name))

\* new_filename = f"{new_base_name}{file_extension}", core.py line 105
\* (new_filename_NoExtension: the new name without the extension.)
new_filename_NoExtension(new_base_name, file_extension) == new_base_name
new_filename(new_base_name, file_extension) == new_base_name \o file_extension

\* core.py lines 39-47 and 99-106 for the joined name final_name: no
\* new_path when the name is empty before or after the sanitization
\* (lines 39-40, 100-101), else filepath.with_name(new_filename).
new_filepath(fp, final_name) ==
    IF final_name = << >> \/ sanitize(final_name) = << >> THEN Return(PyNone)
    ELSE with_name(fp, new_filename(sanitize(final_name), PathSuffix(fp.name)))

\* parent / f"{stem}_{counter}{suffix}", core.py lines 54-61
unique_candidate(path, counter) ==
    FsPath(path.parent,
           PathStem(path.name) \o <<"_">> \o IntToStr(counter) \o PathSuffix(path.name))

\* File names of up to three characters, with and without dots; "." and
\* ".." name no file.
FileNames ==
    UNION {[1..n -> {"a", "."}] : n \in 1..3} \ {<<".">>, <<".", ".">>}
ParentDirs == {<<"d">>, <<"d", "/", "e">>}
\* The joined name before the sanitization: any string of info values and
\* underscores, path separators and dots included.
FinalNames == UNION {[1..n -> {"a", ".", "/", " "}] : n \in 0..MaxLen}
UniqueCounters == {1, 2, 10}

NameInit ==
    /\ NoBatch
    /\ call \in {[fn |-> "new_filepath", filepath |-> FsPath(d, f), final_name |-> x,
                  counter |-> 0] :
                    d \in ParentDirs, f \in FileNames, x \in FinalNames}
    /\ ret = NoReturn
\* lines 99-106: the path of conflict_skipped, skipped, and of a rename to
\* a free name
CallNewFilepath ==
    /\ call.fn = "new_filepath"
    /\ ret = NoReturn
    /\ ret' = new_filepath(call.filepath, call.final_name)
    /\ UNCHANGED <<mainVars, call, credentials>>
\* line 115: policy rename found the name taken; get_unique_path returns
\* the candidate of some counter
CallGetUniquePath ==
    /\ call.fn = "new_filepath"
    /\ call.counter = 0
    /\ ret # NoReturn /\ ret.tag = "return" /\ ret.value # PyNone
    /\ \E counter \in UniqueCounters :
          /\ call' = [call EXCEPT !.counter = counter]
          /\ ret' = Return(unique_candidate(ret.value, counter))
    /\ UNCHANGED <<mainVars, credentials>>
NameNext == CallNewFilepath \/ CallGetUniquePath
NameSpec == NameInit /\ [][NameNext]_vars

\* C30: every new_path a record carries lies in the directory of
\* original_path and has the suffix of original_path, whatever the
\* extracted values, the template and the conflict policy; computing it
\* raises nothing.
C30_SameDirectoryAndSuffix ==
    call.fn = "new_filepath" /\ ret # NoReturn =>
        /\ ret.tag = "return"
        /\ ret.value # PyNone =>
              /\ ret.value.parent = call.filepath.parent
              /\ \A i \in 1..Len(ret.value.name) : ret.value.name[i] # "/"
              /\ ret.value.name \notin {<<".">>, <<".", ".">>}
              /\ PathSuffix(ret.value.name) = PathSuffix(call.filepath.name)

\* d/e/a.a with the joined name "../a": the new path is d/e/a.a itself, and
\* the first candidate of get_unique_path is d/e/a_1.a.
C30_Witness ==
    /\ call.fn = "new_filepath"
    /\ call.filepath = FsPath(<<"d", "/", "e">>, <<"a", ".", "a">>)
    /\ call.final_name = <<".", ".", "/", "a">>
    /\ call.counter = 1
    /\ ret = Return(FsPath(<<"d", "/", "e">>, <<"a", "_", "1", ".", "a">>))

=============================================================================
